---- MODULE Spec2Model ----
(***************************************************************************)
(* The conversation tree of context-tree (src/core/tree.py), its state     *)
(* record (src/core/state.py), the identifier parser                       *)
(* (src/utils/validators.py) and the dictionary codec (to_dict/from_dict). *)
(*                                                                         *)
(* Encoding of Python values:                                              *)
(*   - a hierarchical id string "1.2.1" is the sequence of its dot         *)
(*     separated decimal fields <<1, 2, 1>>; str(n) is <<n>> and           *)
(*     f"{p}.{k}" is Append(p, k).  A field < 0 stands for text that is    *)
(*     not a digit run ("1.-1" does not match ^\d+(\.\d+)*$).              *)
(*   - None is <<>>.  The empty string is not among the inputs: in every   *)
(*     branch of the code that can see it, it behaves as an unknown or     *)
(*     malformed string does.                                              *)
(*   - a dict is a function; the key order of the ordered dict _states is  *)
(*     kept beside it in states_keys.                                      *)
(***************************************************************************)
EXTENDS Integers, Sequences, FiniteSets, TLC

\* ------------------------------------------------------------------ bounds
\* The size of a tree is the number of add_state calls made on it (its counter)
\* plus the number of stored records that differ from the record add_state
\* stored.  No call takes a tree beyond the size MaxSize.
MaxSize == 4

None == <<>>

ModelName == "test-model"
Tags == {"important"}

\* The payload of the k-th call since the tree was created or cleared.  The
\* tree never looks into message or response, so it is enough that every call
\* passes texts of its own: then a record is told from every other by its texts.
Message(k) == <<"message", k>>

Response(k) == <<"response", k>>

\* datetime.now() at the k-th call: a clock that advances; isoformat() prints
\* the microseconds only when they are not 0, and both shapes occur.
Now(k) == [sec |-> k, usec |-> IF k % 2 = 0 THEN 0 ELSE k]

EmptyDict == [k \in {} |-> FALSE]

\* ------------------------------------------------------------------ state
VARIABLES
    states,            \* _states: hierarchical_id -> ConversationState
    states_keys,       \* key order of the dict _states
    sequence_index,    \* _sequence_index: sequence -> hierarchical_id
    hierarchy_index,   \* _hierarchy_index: hierarchical_id -> sequence
    parent_children,   \* _parent_children: parent -> list of children
    current_state,     \* _current_state
    sequence_counter,  \* _sequence_counter
    navigator,         \* main.py 33: the TreeNavigator of the application
    last               \* the last call: its name, its outcome, the id it returned

vars == <<states, states_keys, sequence_index, hierarchy_index,
          parent_children, current_state, sequence_counter, navigator, last>>

tree_vars == <<states, states_keys, sequence_index, hierarchy_index,
               parent_children, current_state, sequence_counter>>

\* the ConversationTree object as a value: the queries below take the tree they
\* are called on, so that they also apply to a tree from_dict has built
Tree ==
    [states |-> states, states_keys |-> states_keys,
     sequence_index |-> sequence_index, hierarchy_index |-> hierarchy_index,
     parent_children |-> parent_children, current_state |-> current_state,
     sequence_counter |-> sequence_counter]

\* navigation.py 11-12: a navigator holds the tree it was made for. The tree
\* variables above are the tree the application holds in self.tree; the tree of
\* a navigator is that object ("self.tree") or an object the application held
\* before it assigned another one to self.tree ("earlier tree").
TreeNavigator(tree) == [tree |-> tree]

\* ------------------------------------------------------------------ dict helpers
\* d[k] = v on a dict: a new key is added, an existing key is replaced.
DictSet(d, k, v) == [x \in DOMAIN d \cup {k} |-> IF x = k THEN v ELSE d[x]]

\* d.get(k, default)
DictGet(d, k, default) == IF k \in DOMAIN d THEN d[k] ELSE default

\* the key order of an ordered dict after d[k] = v
KeysSet(keys, d, k) == IF k \in DOMAIN d THEN keys ELSE Append(keys, k)

\* ------------------------------------------------------------------ ConversationState
ConversationState(hid, seq, parent, message, response, ts, tags, metadata) ==
    [hierarchical_id |-> hid, sequence_id |-> seq, parent_id |-> parent,
     message |-> message, response |-> response, model |-> ModelName,
     timestamp |-> ts, tags |-> tags, metadata |-> metadata]

\* state.py: is_branch property
is_branch(state) == DictGet(state.metadata, "is_branch", FALSE)

\* state.py: is_root property
is_root(state) == state.parent_id = None

\* state.py: depth property
depth(state) == Len(state.hierarchical_id)

\* state.py: with_tags
with_tags(state, tags) ==
    ConversationState(state.hierarchical_id, state.sequence_id, state.parent_id,
                      state.message, state.response, state.timestamp,
                      tags, state.metadata)

\* str.strip() on the tag texts that occur: a text with blanks around it gives
\* the text without them, every other text itself
Stripped == (" important " :> "important") @@ ("  " :> "")

strip(text) == IF text \in DOMAIN Stripped THEN Stripped[text] ELSE text

\* mutant: the tag is discarded as it was passed, without strip()
remove_tag_unstripped(state, tag) == with_tags(state, state.tags \ {tag})

\* state.py 56-60
add_tag(state, tag) == with_tags(state, state.tags \cup {strip(tag)})

\* state.py 62-66
remove_tag(state, tag) == with_tags(state, state.tags \ {strip(tag)})

\* the record add_state stored under hid: the payload and the clock of a call are
\* those of its number, which _hierarchy_index keeps
stored_by_add(hid) ==
    ConversationState(hid, hierarchy_index[hid],
                      IF Len(hid) = 1 THEN None ELSE SubSeq(hid, 1, Len(hid) - 1),
                      Message(hierarchy_index[hid]), Response(hierarchy_index[hid]),
                      Now(hierarchy_index[hid]), {}, EmptyDict)

modified(d) == {hid \in DOMAIN d : d[hid] # stored_by_add(hid)}

size(counter, d) == counter + Cardinality(modified(d))

\* ------------------------------------------------------------------ Init
Init ==
    /\ states = EmptyDict
    /\ states_keys = <<>>
    /\ sequence_index = EmptyDict
    /\ hierarchy_index = EmptyDict
    /\ parent_children = EmptyDict
    /\ current_state = None
    /\ sequence_counter = 0
    /\ navigator = TreeNavigator("self.tree")
    /\ last = [op |-> "init", status |-> "ok", ret |-> None]

\* ------------------------------------------------------------------ add_state
\* mutant: every child is given slot 1, the children are not counted
new_hierarchical_id_first_slot(parent_id, counter, children) ==
    IF parent_id = None THEN <<counter>> ELSE Append(parent_id, 1)

\* mutant: the branch index is taken from the sequence counter
new_hierarchical_id_by_sequence(parent_id, counter, children) ==
    IF parent_id = None THEN <<counter>> ELSE Append(parent_id, counter)

\* tree.py 47-55: the hierarchical id of the new state (the parent is known)
new_hierarchical_id(parent_id, counter, children) ==
    IF parent_id = None
    THEN <<counter>>
    ELSE Append(parent_id, Len(DictGet(children, parent_id, <<>>)) + 1)

\* tree.py 58-66: the record add_state builds (tags and metadata take the defaults)
new_state(parent_id, counter, children, message, response, ts) ==
    ConversationState(new_hierarchical_id(parent_id, counter, children), counter,
                      parent_id, message, response, ts, {}, EmptyDict)

\* mutant: the parent is checked for its format (validate_state_identifier),
\* not looked up
parent_missing_format_only(parent_id) ==
    parent_id # None /\ \E i \in 1..Len(parent_id) : parent_id[i] < 0

\* tree.py 50: the parent check
parent_missing(parent_id) == parent_id # None /\ parent_id \notin DOMAIN states

\* mutant: the failed call also drops the current state
add_state_raises_resets_current(parent_id) ==
    /\ parent_missing(parent_id)
    /\ sequence_counter' = sequence_counter + 1
    /\ current_state' = None
    /\ last' = [op |-> "add_state", status |-> "StateNotFoundError", ret |-> None]
    /\ UNCHANGED <<states, states_keys, sequence_index, hierarchy_index,
                   parent_children>>

\* tree.py 42-51, the path that raises StateNotFoundError: line 44 has already run.
add_state_raises(parent_id) ==
    /\ parent_missing(parent_id)
    /\ sequence_counter' = sequence_counter + 1
    /\ last' = [op |-> "add_state", status |-> "StateNotFoundError", ret |-> None]
    /\ UNCHANGED <<states, states_keys, sequence_index, hierarchy_index,
                   parent_children, current_state>>

\* mutant: the new state is put at the front of the parent's child list
add_state_returns_inserts_first(parent_id, message, response, ts) ==
    /\ ~parent_missing(parent_id)
    /\ LET counter == sequence_counter + 1
           state == new_state(parent_id, counter, parent_children, message, response, ts)
           hid == state.hierarchical_id
       IN /\ sequence_counter' = counter
          /\ states' = DictSet(states, hid, state)
          /\ states_keys' = KeysSet(states_keys, states, hid)
          /\ sequence_index' = DictSet(sequence_index, counter, hid)
          /\ hierarchy_index' = DictSet(hierarchy_index, hid, counter)
          /\ parent_children' =
                IF parent_id # None
                THEN DictSet(parent_children, parent_id,
                             <<hid>> \o DictGet(parent_children, parent_id, <<>>))
                ELSE parent_children
          /\ current_state' = hid
          /\ last' = [op |-> "add_state", status |-> "ok", ret |-> hid]

\* tree.py 42-79, the path that returns the new state
add_state_returns(parent_id, message, response, ts) ==
    /\ ~parent_missing(parent_id)
    /\ LET counter == sequence_counter + 1
           state == new_state(parent_id, counter, parent_children, message, response, ts)
           hid == state.hierarchical_id
       IN /\ sequence_counter' = counter
          /\ states' = DictSet(states, hid, state)
          /\ states_keys' = KeysSet(states_keys, states, hid)
          /\ sequence_index' = DictSet(sequence_index, counter, hid)
          /\ hierarchy_index' = DictSet(hierarchy_index, hid, counter)
          /\ parent_children' =
                IF parent_id # None
                THEN DictSet(parent_children, parent_id,
                             Append(DictGet(parent_children, parent_id, <<>>), hid))
                ELSE parent_children
          /\ current_state' = hid
          /\ last' = [op |-> "add_state", status |-> "ok", ret |-> hid]

\* the parents a caller passes: None, every stored id, and ids that are not stored
ParentInputs ==
    {None} \cup DOMAIN states
    \cup {<<n>> : n \in 1..(MaxSize + 1)}
    \cup {<<1, -1>>}

\* tree.py 42-79
add_state(parent_id, message, response, ts) ==
    \/ add_state_raises(parent_id)
    \/ add_state_returns(parent_id, message, response, ts)

\* a call of add_state with the payload and the clock of this call
add_state_call(parent_id) ==
    add_state(parent_id, Message(sequence_counter + 1),
              Response(sequence_counter + 1), Now(sequence_counter + 1))

add ==
    /\ size(sequence_counter, states) < MaxSize
    /\ \E parent_id \in ParentInputs : add_state_call(parent_id)

\* ------------------------------------------------------------------ identifiers
\* Union[int, str]: an integer n, a string s, or (as a result of parsing) None
IntId(n) == [type |-> "int", n |-> n, s |-> <<>>]

StrId(s) == [type |-> "str", n |-> 0, s |-> s]

NoneId == [type |-> "none", n |-> 0, s |-> <<>>]

\* validators.py 12-15: the string matches ^\d+(\.\d+)*$
matches_hierarchical(s) == Len(s) >= 1 /\ \A i \in 1..Len(s) : s[i] >= 0

\* validators.py 40-55: int(identifier) succeeds on a single (signed) decimal
\* field; otherwise the hierarchical pattern decides.
parse_state_identifier(s) ==
    IF Len(s) = 1
    THEN IF s[1] > 0 THEN IntId(s[1]) ELSE NoneId
    ELSE IF matches_hierarchical(s) THEN StrId(s) ELSE NoneId

\* A query that returns a state returns the key it is stored under (the state
\* is t.states[key]), and None when it returns no state.

\* tree.py 81-90
find_state(t, identifier) ==
    IF identifier.type = "int"
    THEN LET hierarchical_id == DictGet(t.sequence_index, identifier.n, None)
         IN IF hierarchical_id # None /\ hierarchical_id \in DOMAIN t.states
            THEN hierarchical_id ELSE None
    ELSE IF identifier.type = "str"
    THEN IF identifier.s \in DOMAIN t.states THEN identifier.s ELSE None
    ELSE None

\* mutant: the identifier goes to find_state as it was given
parsed_identifier_as_given(identifier) == identifier

\* tree.py 95: a string is parsed, an integer is taken as it is
parsed_identifier(identifier) ==
    IF identifier.type = "str" THEN parse_state_identifier(identifier.s) ELSE identifier

\* tree.py 92-104: the new value of _current_state, None when navigate_to
\* returns False
navigate_target(identifier) ==
    LET parsed_id == parsed_identifier(identifier)
    IN IF parsed_id.type = "none" THEN None
       ELSE LET found == find_state(Tree, parsed_id)
            IN IF found = None THEN None ELSE states[found].hierarchical_id

\* mutant: the child list of the target is read through the defaultdict, which
\* creates the entry it does not find
navigate_to_touches_children(identifier) ==
    LET target == navigate_target(identifier)
    IN /\ current_state' = IF target # None THEN target ELSE current_state
       /\ parent_children' =
              IF target # None
              THEN DictSet(parent_children, target, DictGet(parent_children, target, <<>>))
              ELSE parent_children
       /\ last' = [op |-> "navigate_to",
                   status |-> IF target # None THEN "True" ELSE "False",
                   ret |-> None]
       /\ UNCHANGED <<states, states_keys, sequence_index, hierarchy_index,
                      sequence_counter>>

\* mutant: current is assigned whatever the lookup gave, None on a miss
navigate_to_assigns_miss(identifier) ==
    LET target == navigate_target(identifier)
    IN /\ current_state' = target
       /\ last' = [op |-> "navigate_to",
                   status |-> IF target # None THEN "True" ELSE "False",
                   ret |-> None]
       /\ UNCHANGED <<states, states_keys, sequence_index, hierarchy_index,
                      parent_children, sequence_counter>>

\* tree.py 92-104
navigate_to(identifier) ==
    LET target == navigate_target(identifier)
    IN /\ current_state' = IF target # None THEN target ELSE current_state
       /\ last' = [op |-> "navigate_to",
                   status |-> IF target # None THEN "True" ELSE "False",
                   ret |-> None]
       /\ UNCHANGED <<states, states_keys, sequence_index, hierarchy_index,
                      parent_children, sequence_counter>>

\* the identifiers a caller passes: sequence numbers (0 and negative ones too),
\* stored ids, ids that are not stored, malformed text
Identifiers ==
    {IntId(n) : n \in 0..(MaxSize + 1)}
    \cup {StrId(h) : h \in DOMAIN states}
    \cup {StrId(<<n>>) : n \in DOMAIN sequence_index \cup {-1, 0, MaxSize + 1}}
    \cup {StrId(<<1, MaxSize + 1>>), StrId(<<1, -1>>)}

\* ------------------------------------------------------------------ update_state
\* mutant: the hierarchical_id of the record is not compared with state_id
update_accepted_without_id_check(state_id, updated_state) ==
    state_id \in DOMAIN states

\* tree.py 165-175: accepted exactly when the id is stored and the record carries it
update_accepted(state_id, updated_state) ==
    /\ state_id \in DOMAIN states
    /\ updated_state.hierarchical_id = state_id

\* mutant: the updated state is made the current one
update_state_sets_current(state_id, updated_state) ==
    /\ states' = IF update_accepted(state_id, updated_state)
                 THEN DictSet(states, state_id, updated_state)
                 ELSE states
    /\ current_state' = IF update_accepted(state_id, updated_state)
                        THEN state_id ELSE current_state
    /\ last' = [op |-> "update_state",
                status |-> IF update_accepted(state_id, updated_state)
                           THEN "True" ELSE "False",
                ret |-> None]
    /\ UNCHANGED <<states_keys, sequence_index, hierarchy_index,
                   parent_children, sequence_counter>>

\* tree.py 165-175
update_state(state_id, updated_state) ==
    /\ states' = IF update_accepted(state_id, updated_state)
                 THEN DictSet(states, state_id, updated_state)
                 ELSE states
    /\ last' = [op |-> "update_state",
                status |-> IF update_accepted(state_id, updated_state)
                           THEN "True" ELSE "False",
                ret |-> None]
    /\ UNCHANGED <<states_keys, sequence_index, hierarchy_index,
                   parent_children, current_state, sequence_counter>>

\* A record built by the caller rather than derived from the stored one (as
\* tests/conftest.py sample_state is): update_state looks only at its
\* hierarchical_id.
CallerRecords(hid) ==
    {ConversationState(hid, 1, None, Message(0), Response(0), Now(0), {}, EmptyDict)}

\* the records a caller passes for state_id: the stored record of some state with
\* a tag added or removed (commands.py 187, 192; main.py 228, 232), or a record
\* of its own making
UpdateInputs(state_id) ==
    {add_tag(states[h], t) : h \in DOMAIN states \cap {state_id, current_state}, t \in Tags}
    \cup {remove_tag(states[h], t) : h \in DOMAIN states \cap {state_id}, t \in Tags}
    \cup CallerRecords(state_id)

StateIdInputs == DOMAIN states \cup {<<MaxSize + 1>>}

update ==
    \E state_id \in StateIdInputs :
        \E updated_state \in UpdateInputs(state_id) :
            /\ update_state(state_id, updated_state)
            /\ size(sequence_counter', states') <= MaxSize

\* ------------------------------------------------------------------ clear
\* mutant: the counter is not reset
clear_keeps_counter ==
    /\ states' = EmptyDict
    /\ states_keys' = <<>>
    /\ sequence_index' = EmptyDict
    /\ hierarchy_index' = EmptyDict
    /\ parent_children' = EmptyDict
    /\ current_state' = None
    /\ sequence_counter' = sequence_counter
    /\ last' = [op |-> "clear", status |-> "ok", ret |-> None]

\* tree.py 194-201
clear ==
    /\ states' = EmptyDict
    /\ states_keys' = <<>>
    /\ sequence_index' = EmptyDict
    /\ hierarchy_index' = EmptyDict
    /\ parent_children' = EmptyDict
    /\ current_state' = None
    /\ sequence_counter' = 0
    /\ last' = [op |-> "clear", status |-> "ok", ret |-> None]

navigate ==
    \E identifier \in Identifiers : navigate_to(identifier)

\* ------------------------------------------------------------------ queries
\* tree.py 38-40
state_count(t) == Cardinality(DOMAIN t.states)

\* tree.py 106-109: the children of state_id, in the order of the child list
get_children(t, state_id) ==
    LET children_ids == DictGet(t.parent_children, state_id, <<>>)
        stored(child_id) == child_id \in DOMAIN t.states
    IN SelectSeq(children_ids, stored)

\* tree.py 111-116
get_parent(t, state_id) ==
    IF state_id \in DOMAIN t.states /\ t.states[state_id].parent_id # None
    THEN IF t.states[state_id].parent_id \in DOMAIN t.states
         THEN t.states[state_id].parent_id ELSE None
    ELSE None

\* mutant: path.append(current_id), which leaves the path leaf first
RECURSIVE path_walk_appends(_, _, _)
path_walk_appends(t, current_id, path) ==
    IF current_id # None /\ current_id \in DOMAIN t.states
    THEN path_walk_appends(t, t.states[current_id].parent_id, Append(path, current_id))
    ELSE path

\* tree.py 132-135: the loop of get_path_to_root
RECURSIVE path_walk(_, _, _)
path_walk(t, current_id, path) ==
    IF current_id # None /\ current_id \in DOMAIN t.states
    THEN path_walk(t, t.states[current_id].parent_id, <<current_id>> \o path)
    ELSE path

\* tree.py 127-137
get_path_to_root(t, state_id) == path_walk(t, state_id, <<>>)

\* tree.py 188-190: two entries for every state of the path
RECURSIVE path_messages(_, _)
path_messages(t, path) ==
    IF path = <<>> THEN <<>>
    ELSE <<[role |-> "user", content |-> t.states[Head(path)].message],
           [role |-> "assistant", content |-> t.states[Head(path)].response]>>
         \o path_messages(t, Tail(path))

\* tree.py 177-192; state_id = None is the call without an argument
get_conversation_messages(t, state_id) ==
    LET id == IF state_id = None THEN t.current_state ELSE state_id
    IN IF id = None THEN <<>> ELSE path_messages(t, get_path_to_root(t, id))

\* ------------------------------------------------------------------ to_dict / from_dict
\* mutant: the text is cut at the seconds
isoformat_to_the_second(ts) == <<ts.sec>>

\* datetime.isoformat(): the text, as its fields; no microseconds when they are 0
isoformat(ts) == IF ts.usec = 0 THEN <<ts.sec>> ELSE <<ts.sec, ts.usec>>

\* datetime.fromisoformat()
fromisoformat(text) ==
    [sec |-> text[1], usec |-> IF Len(text) >= 2 THEN text[2] ELSE 0]

\* list(frozenset): the elements in some order
RECURSIVE set_to_list(_)
set_to_list(set) ==
    IF set = {} THEN <<>>
    ELSE LET x == CHOOSE y \in set : TRUE
         IN <<x>> \o set_to_list(set \ {x})

\* frozenset(list)
list_to_set(list) == {list[i] : i \in 1..Len(list)}

\* state.py 68-80
state_to_dict(state) ==
    [hierarchical_id |-> state.hierarchical_id, sequence_id |-> state.sequence_id,
     parent_id |-> state.parent_id, message |-> state.message,
     response |-> state.response, model |-> state.model,
     timestamp |-> isoformat(state.timestamp), tags |-> set_to_list(state.tags),
     metadata |-> state.metadata]

\* state.py 82-95
state_from_dict(data) ==
    [hierarchical_id |-> data.hierarchical_id, sequence_id |-> data.sequence_id,
     parent_id |-> data.parent_id, message |-> data.message,
     response |-> data.response, model |-> data.model,
     timestamp |-> fromisoformat(data.timestamp), tags |-> list_to_set(data.tags),
     metadata |-> data.metadata]

\* tree.py 203-213: 'states' is an ordered dict, here the list of its items;
\* 'created_at' (the time of the call) is left out, from_dict does not read it.
to_dict(t) ==
    [states |-> [i \in 1..Len(t.states_keys) |->
                    <<t.states_keys[i], state_to_dict(t.states[t.states_keys[i]])>>],
     current_state |-> t.current_state,
     sequence_counter |-> t.sequence_counter,
     metadata |-> [state_count |-> state_count(t)]]

\* tree.py 224-232: one round of the loop over states_data.items()
from_dict_step(t, state_id, state_data) ==
    LET state == state_from_dict(state_data)
    IN [t EXCEPT
           !.states = DictSet(t.states, state_id, state),
           !.states_keys = KeysSet(t.states_keys, t.states, state_id),
           !.sequence_index = DictSet(t.sequence_index, state.sequence_id, state_id),
           !.hierarchy_index = DictSet(t.hierarchy_index, state_id, state.sequence_id),
           !.parent_children =
               IF state.parent_id # None
               THEN DictSet(t.parent_children, state.parent_id,
                            Append(DictGet(t.parent_children, state.parent_id, <<>>),
                                   state_id))
               ELSE t.parent_children]

RECURSIVE from_dict_loop(_, _)
from_dict_loop(t, items) ==
    IF items = <<>> THEN t
    ELSE from_dict_loop(from_dict_step(t, Head(items)[1], Head(items)[2]), Tail(items))

\* mutant: the current state of the dictionary is not read
from_dict_without_current(data) ==
    from_dict_loop(
        [states |-> EmptyDict, states_keys |-> <<>>, sequence_index |-> EmptyDict,
         hierarchy_index |-> EmptyDict, parent_children |-> EmptyDict,
         current_state |-> None,
         sequence_counter |-> data.sequence_counter],
        data.states)

\* tree.py 215-234
from_dict(data) ==
    from_dict_loop(
        [states |-> EmptyDict, states_keys |-> <<>>, sequence_index |-> EmptyDict,
         hierarchy_index |-> EmptyDict, parent_children |-> EmptyDict,
         current_state |-> data.current_state,
         sequence_counter |-> data.sequence_counter],
        data.states)

\* tests/unit/core/test_tree.py 88-89: the tree is replaced by the tree restored
\* from its own dictionary (persistence.py 45-53 and 79-82 write and read that
\* dictionary as JSON, which keeps every value to_dict produces).
load_saved ==
    LET restored == from_dict(to_dict(Tree))
    IN /\ states' = restored.states
       /\ states_keys' = restored.states_keys
       /\ sequence_index' = restored.sequence_index
       /\ hierarchy_index' = restored.hierarchy_index
       /\ parent_children' = restored.parent_children
       /\ current_state' = restored.current_state
       /\ sequence_counter' = restored.sequence_counter
       /\ last' = [op |-> "load", status |-> "ok", ret |-> None]

\* ------------------------------------------------------------------ specifications
\* every operation that changes a ConversationTree
Next ==
    \/ add /\ UNCHANGED navigator
    \/ navigate /\ UNCHANGED navigator
    \/ update /\ UNCHANGED navigator
    \/ clear /\ UNCHANGED navigator

Spec == Init /\ [][Next]_vars

\* the same, and the tree may be saved and loaded back at any point
NextLoad ==
    \/ add /\ UNCHANGED navigator
    \/ navigate /\ UNCHANGED navigator
    \/ update /\ UNCHANGED navigator
    \/ clear /\ UNCHANGED navigator
    \/ load_saved /\ UNCHANGED navigator

SpecLoad == Init /\ [][NextLoad]_vars
\* ------------------------------------------------------------------ TreeNavigator
\* tree.py 30-35: the current_state property, the key of the current record
current_state_property(t) ==
    IF t.current_state # None /\ t.current_state \in DOMAIN t.states
    THEN t.current_state ELSE None

\* navigation.py: raise NavigationError(message); 'range' is the "1-n" of the
\* message of go_down, as the fields <<1, n>>, and None in every other message
NavigationError(op, message, range) ==
    /\ last' = [op |-> op, status |-> message, ret |-> range]
    /\ UNCHANGED tree_vars

\* navigation.py 43 and 62: self.tree.navigate_to(hierarchical_id), whose
\* result is not looked at
navigator_moves(hierarchical_id) ==
    LET target == navigate_target(StrId(hierarchical_id))
    IN /\ current_state' = IF target # None THEN target ELSE current_state
       /\ UNCHANGED <<states, states_keys, sequence_index, hierarchy_index,
                      parent_children, sequence_counter>>

\* mutant: go_up walks to the first state of the path, not to the parent
go_up_to_root ==
    LET current == current_state_property(Tree)
    IN IF current = None
       THEN NavigationError("go_up", "No current state", None)
       ELSE IF is_root(states[current])
       THEN NavigationError("go_up", "Already at root state", None)
       ELSE LET root == Head(get_path_to_root(Tree, current))
            IN /\ navigator_moves(states[root].hierarchical_id)
               /\ last' = [op |-> "go_up", status |-> "ok", ret |-> root]

\* navigation.py 30-44
go_up ==
    LET current == current_state_property(Tree)
    IN IF current = None
       THEN NavigationError("go_up", "No current state", None)
       ELSE IF is_root(states[current])
       THEN NavigationError("go_up", "Already at root state", None)
       ELSE LET parent == get_parent(Tree, current)
            IN IF parent = None
               THEN NavigationError("go_up", "Parent state not found", None)
               ELSE /\ navigator_moves(states[parent].hierarchical_id)
                    /\ last' = [op |-> "go_up", status |-> "ok", ret |-> parent]

\* mutant: the lower end of the range check is 0, and children[-1] is the last child
go_down_accepts_zero(branch_index) ==
    LET current == current_state_property(Tree)
    IN IF current = None
       THEN NavigationError("go_down", "No current state", None)
       ELSE LET children == get_children(Tree, states[current].hierarchical_id)
            IN IF children = <<>>
               THEN NavigationError("go_down", "No child states available", None)
               ELSE IF branch_index < 0 \/ branch_index > Len(children)
               THEN NavigationError("go_down", "Invalid branch index",
                                    <<1, Len(children)>>)
               ELSE LET target_child ==
                            IF branch_index = 0 THEN children[Len(children)]
                            ELSE children[branch_index]
                    IN /\ navigator_moves(states[target_child].hierarchical_id)
                       /\ last' = [op |-> "go_down", status |-> "ok",
                                   ret |-> target_child]

\* navigation.py 46-63
go_down(branch_index) ==
    LET current == current_state_property(Tree)
    IN IF current = None
       THEN NavigationError("go_down", "No current state", None)
       ELSE LET children == get_children(Tree, states[current].hierarchical_id)
            IN IF children = <<>>
               THEN NavigationError("go_down", "No child states available", None)
               ELSE IF branch_index < 1 \/ branch_index > Len(children)
               THEN NavigationError("go_down", "Invalid branch index",
                                    <<1, Len(children)>>)
               ELSE LET target_child == children[branch_index]
                    IN /\ navigator_moves(states[target_child].hierarchical_id)
                       /\ last' = [op |-> "go_down", status |-> "ok",
                                   ret |-> target_child]

\* the branch numbers a caller passes: in range, 0, negative, past the end
BranchIndexes == -1..MaxSize

down == \E branch_index \in BranchIndexes : go_down(branch_index)

\* the operations of a ConversationTree and of the TreeNavigator bound to it
NextNav ==
    \/ add /\ UNCHANGED navigator
    \/ navigate /\ UNCHANGED navigator
    \/ update /\ UNCHANGED navigator
    \/ clear /\ UNCHANGED navigator
    \/ go_up /\ UNCHANGED navigator
    \/ down /\ UNCHANGED navigator

SpecNav == Init /\ [][NextNav]_vars

\* ------------------------------------------------------------------ query calls
\* mutant: an id that is not stored is reported with StateNotFoundError
get_path_to_root_raises(t, state_id) ==
    IF state_id \in DOMAIN t.states THEN "ok" ELSE "StateNotFoundError"

\* tree.py 127-137: how a call ends; no statement of the function raises, an
\* id that is not stored skips the loop and the empty path is returned
get_path_to_root_status(t, state_id) == "ok"

\* tree.py 127-137: a call; the path it returns is get_path_to_root(Tree, state_id)
get_path_to_root_call(state_id) ==
    /\ last' = [op |-> "get_path_to_root",
                status |-> get_path_to_root_status(Tree, state_id), ret |-> None]
    /\ UNCHANGED tree_vars

path_query == \E state_id \in StateIdInputs : get_path_to_root_call(state_id)

\* tree.py 177-192: a call, with an id or (None) without; the list it returns
\* is get_conversation_messages(Tree, state_id)
get_conversation_messages_call(state_id) ==
    /\ last' = [op |-> "get_conversation_messages", status |-> "ok", ret |-> None]
    /\ UNCHANGED tree_vars

messages_query ==
    \E state_id \in StateIdInputs \cup {None} : get_conversation_messages_call(state_id)

\* tree.py 81-90: a call; it returns the state found, or None
find_state_call(identifier) ==
    /\ last' = [op |-> "find_state", status |-> "ok",
                ret |-> find_state(Tree, identifier)]
    /\ UNCHANGED tree_vars

\* the identifiers of navigate_to, and a negative sequence number
FindInputs == Identifiers \cup {IntId(-1)}

find_query == \E identifier \in FindInputs : find_state_call(identifier)

\* the operations that change a ConversationTree, and the queries on it
NextQuery ==
    \/ add /\ UNCHANGED navigator
    \/ navigate /\ UNCHANGED navigator
    \/ update /\ UNCHANGED navigator
    \/ clear /\ UNCHANGED navigator
    \/ path_query /\ UNCHANGED navigator
    \/ messages_query /\ UNCHANGED navigator
    \/ find_query /\ UNCHANGED navigator

SpecQuery == Init /\ [][NextQuery]_vars

\* ------------------------------------------------------------------ load_conversation
\* state.py 85-91: the keys from_dict reads as data[key]
RequiredKeys ==
    {"hierarchical_id", "sequence_id", "message", "response", "model", "timestamp"}

\* state.py 82-95: KeyError for a dictionary without a required key
state_from_dict_raises(data) == ~(RequiredKeys \subseteq DOMAIN data)

\* tree.py 224-232: the loop raises at the first state it cannot decode
from_dict_raises(data) ==
    \E i \in 1..Len(data.states) : state_from_dict_raises(data.states[i][2])

\* A file of the save directory: whether it exists, whether its text is JSON,
\* and the dictionary json.load gives.
File(exists, is_json, data) == [exists |-> exists, is_json |-> is_json, data |-> data]

\* persistence.py 76-87: the three ways load_conversation raises PersistenceError
load_conversation_raises(file) ==
    \/ ~file.exists
    \/ ~file.is_json
    \/ from_dict_raises(file.data)

\* persistence.py 79-82: the tree of a call that returns
load_conversation(file) == from_dict(file.data)

\* the states of a dictionary decoded before the first one that raises
RECURSIVE decoded_before_error(_)
decoded_before_error(items) ==
    IF items = <<>> \/ state_from_dict_raises(Head(items)[2]) THEN <<>>
    ELSE <<Head(items)>> \o decoded_before_error(Tail(items))

\* mutant: the file is decoded into the tree of the session, which keeps what was
\* decoded when a state raises
handle_load_menu_decodes_in_place(file) ==
    LET loaded_tree ==
            IF ~file.exists \/ ~file.is_json THEN Tree
            ELSE from_dict([file.data EXCEPT !.states = decoded_before_error(@)])
    IN /\ states' = loaded_tree.states
       /\ states_keys' = loaded_tree.states_keys
       /\ sequence_index' = loaded_tree.sequence_index
       /\ hierarchy_index' = loaded_tree.hierarchy_index
       /\ parent_children' = loaded_tree.parent_children
       /\ current_state' = loaded_tree.current_state
       /\ sequence_counter' = loaded_tree.sequence_counter
       /\ navigator' = TreeNavigator("self.tree")
       /\ last' = [op |-> "load",
                   status |-> IF load_conversation_raises(file)
                              THEN "PersistenceError" ELSE "ok",
                   ret |-> None]

\* mutant: the navigator is not made anew for the loaded tree
handle_load_menu_keeps_navigator(file) ==
    IF load_conversation_raises(file)
    THEN /\ last' = [op |-> "load", status |-> "PersistenceError", ret |-> None]
         /\ UNCHANGED tree_vars
         /\ UNCHANGED navigator
    ELSE LET loaded_tree == load_conversation(file)
         IN /\ states' = loaded_tree.states
            /\ states_keys' = loaded_tree.states_keys
            /\ sequence_index' = loaded_tree.sequence_index
            /\ hierarchy_index' = loaded_tree.hierarchy_index
            /\ parent_children' = loaded_tree.parent_children
            /\ current_state' = loaded_tree.current_state
            /\ sequence_counter' = loaded_tree.sequence_counter
            /\ navigator' = TreeNavigator("earlier tree")
            /\ last' = [op |-> "load", status |-> "ok", ret |-> None]

\* main.py 241-254: the tree of the session is replaced when load_conversation
\* returns; when it raises, the error is shown and nothing is assigned
handle_load_menu(file) ==
    IF load_conversation_raises(file)
    THEN /\ last' = [op |-> "load", status |-> "PersistenceError", ret |-> None]
         /\ UNCHANGED tree_vars
         /\ UNCHANGED navigator
    ELSE LET loaded_tree == load_conversation(file)
         IN /\ states' = loaded_tree.states
            /\ states_keys' = loaded_tree.states_keys
            /\ sequence_index' = loaded_tree.sequence_index
            /\ hierarchy_index' = loaded_tree.hierarchy_index
            /\ parent_children' = loaded_tree.parent_children
            /\ current_state' = loaded_tree.current_state
            /\ sequence_counter' = loaded_tree.sequence_counter
            /\ navigator' = TreeNavigator("self.tree")
            /\ last' = [op |-> "load", status |-> "ok", ret |-> None]

\* a state dictionary without one of its keys
without_key(data, key) == [k \in DOMAIN data \ {key} |-> data[k]]

\* a saved tree, its i-th state without the key 'message'
SavedWithoutMessage(saved, i) ==
    [saved EXCEPT !.states[i] = <<@[1], without_key(@[2], "message")>>]

\* a snapshot in which "1" names "1.1" as its parent, and "1.1" names "1"
CyclicSnapshot ==
    [states |-> <<
         <<<<1>>, state_to_dict(ConversationState(<<1>>, 1, <<1, 1>>, Message(1),
                                                   Response(1), Now(1), {}, EmptyDict))>>,
         <<<<1, 1>>, state_to_dict(ConversationState(<<1, 1>>, 2, <<1>>, Message(2),
                                                      Response(2), Now(2), {}, EmptyDict))>> >>,
     current_state |-> <<1, 1>>,
     sequence_counter |-> 2,
     metadata |-> [state_count |-> 2]]

\* the files a user selects: one that is not there, one that is not JSON, the
\* saved tree, the saved tree with a state that lacks a key
Files ==
    LET saved == to_dict(Tree)
    IN {File(FALSE, FALSE, None), File(TRUE, FALSE, None), File(TRUE, TRUE, saved)}
       \cup {File(TRUE, TRUE, SavedWithoutMessage(saved, i)) : i \in 1..Len(saved.states)}

load == \E file \in Files : handle_load_menu(file)

\* a session: the operations on its tree, and loading a file into it
NextSession ==
    \/ add /\ UNCHANGED navigator
    \/ navigate /\ UNCHANGED navigator
    \/ update /\ UNCHANGED navigator
    \/ clear /\ UNCHANGED navigator
    \/ load

SpecSession == Init /\ [][NextSession]_vars

\* the same files, and a snapshot edited into a cycle
EditedFiles == Files \cup {File(TRUE, TRUE, CyclicSnapshot)}

load_edited == \E file \in EditedFiles : handle_load_menu(file)

\* a session in which the files of the save directory may have been edited
NextEdited ==
    \/ add /\ UNCHANGED navigator
    \/ navigate /\ UNCHANGED navigator
    \/ update /\ UNCHANGED navigator
    \/ clear /\ UNCHANGED navigator
    \/ load_edited

SpecEdited == Init /\ [][NextEdited]_vars

\* ------------------------------------------------------------------ records
\* the tags of the records a caller builds
RecordTags == {"important", "todo", "idea"}

\* metadata of a record that is marked as a branch
BranchMetadata == ("is_branch" :> TRUE)

\* tests/unit/core/test_state.py 56-67: records built by a caller, a root and a
\* state with a parent, with every set of tags, with and without the branch
\* mark, with a time that has microseconds and one that has none
RecordInputs ==
    {ConversationState(hid, Len(hid), IF Len(hid) = 1 THEN None ELSE <<1>>,
                       Message(k), Response(k), Now(k), tags, metadata) :
         hid \in {<<1>>, <<1, 2>>}, k \in 1..2, tags \in SUBSET RecordTags,
         metadata \in {EmptyDict, BranchMetadata}}

\* a record is built; it is kept in 'ret'
make_record ==
    /\ \E state \in RecordInputs :
           last' = [op |-> "ConversationState", status |-> "ok", ret |-> state]
    /\ UNCHANGED tree_vars

\* tests/unit/core/test_state.py 69-70: state_dict = state.to_dict();
\* restored_state = ConversationState.from_dict(state_dict)
round_trip ==
    /\ last.op \in {"ConversationState", "from_dict"}
    /\ last' = [op |-> "from_dict", status |-> "ok",
                ret |-> state_from_dict(state_to_dict(last.ret))]
    /\ UNCHANGED tree_vars

\* records, written to a dictionary and read back
NextRecord ==
    \/ make_record /\ UNCHANGED navigator
    \/ round_trip /\ UNCHANGED navigator

SpecRecord == Init /\ [][NextRecord]_vars

\* ------------------------------------------------------------------ TagCommand
\* the texts of the modelled tags that the pattern of validate_tag_name rejects
NotTagNames == {"no!"}

\* validators.py 20-27
validate_tag_name(tag) ==
    /\ tag # ""
    /\ strip(tag) # ""
    /\ strip(tag) \notin NotTagNames

\* commands.py 185-193: the record the tag command passes to update_state
toggled(current, tag_text) ==
    IF tag_text \in current.tags THEN remove_tag(current, tag_text)
    ELSE add_tag(current, tag_text)

\* mutant: the tag is added whether or not the state has it
TagCommand_always_adds(text) ==
    LET current == current_state_property(Tree)
        tag_text == strip(text)
    IN IF current = None
       THEN /\ last' = [op |-> "tag", status |-> "No current state to tag", ret |-> None]
            /\ UNCHANGED tree_vars
       ELSE IF ~validate_tag_name(tag_text)
       THEN /\ last' = [op |-> "tag", status |-> "Invalid tag name", ret |-> None]
            /\ UNCHANGED tree_vars
       ELSE LET updated_state == add_tag(states[current], tag_text)
                state_id == states[current].hierarchical_id
            IN /\ states' = IF update_accepted(state_id, updated_state)
                            THEN DictSet(states, state_id, updated_state)
                            ELSE states
               /\ last' = [op |-> "tag",
                           status |-> IF tag_text \in states[current].tags
                                      THEN "Removed tag" ELSE "Added tag",
                           ret |-> None]
               /\ UNCHANGED <<states_keys, sequence_index, hierarchy_index,
                              parent_children, current_state, sequence_counter>>

\* commands.py 168-193: TagCommand.execute with arguments; 'text' is the
\* arguments joined
TagCommand(text) ==
    LET current == current_state_property(Tree)
        tag_text == strip(text)
    IN IF current = None
       THEN /\ last' = [op |-> "tag", status |-> "No current state to tag", ret |-> None]
            /\ UNCHANGED tree_vars
       ELSE IF ~validate_tag_name(tag_text)
       THEN /\ last' = [op |-> "tag", status |-> "Invalid tag name", ret |-> None]
            /\ UNCHANGED tree_vars
       ELSE LET updated_state == toggled(states[current], tag_text)
                state_id == states[current].hierarchical_id
            IN /\ states' = IF update_accepted(state_id, updated_state)
                            THEN DictSet(states, state_id, updated_state)
                            ELSE states
               /\ last' = [op |-> "tag",
                           status |-> IF tag_text \in states[current].tags
                                      THEN "Removed tag" ELSE "Added tag",
                           ret |-> None]
               /\ UNCHANGED <<states_keys, sequence_index, hierarchy_index,
                              parent_children, current_state, sequence_counter>>

\* the texts typed after /tag: two tags, and a text the pattern rejects
TagTexts == {"important", "todo", "no!"}

tag ==
    \E text \in TagTexts :
        /\ TagCommand(text)
        /\ size(sequence_counter', states') <= MaxSize

\* a tree whose states are tagged with the tag command
NextTag ==
    \/ add /\ UNCHANGED navigator
    \/ navigate /\ UNCHANGED navigator
    \/ clear /\ UNCHANGED navigator
    \/ tag /\ UNCHANGED navigator

SpecTag == Init /\ [][NextTag]_vars

\* ------------------------------------------------------------------ go_to_state
\* sorted(...): the numbers of a set in increasing order
RECURSIVE sorted(_)
sorted(numbers) ==
    IF numbers = {} THEN <<>>
    ELSE LET least == CHOOSE n \in numbers : \A m \in numbers : n <= m
         IN <<least>> \o sorted(numbers \ {least})

\* tree.py 156-159: the states in the order of the keys of the sequence index
get_all_states(t) ==
    LET keys == sorted(DOMAIN t.sequence_index)
    IN [i \in 1..Len(keys) |-> t.sequence_index[keys[i]]]

\* navigation.py 96: "a in b" for two texts of dot-separated fields. Every
\* field of this model has one character, so the text a is part of the text b
\* exactly when the fields of a stand in a row in b.
text_in(a, b) ==
    \E i \in 0..(Len(b) - Len(a)) : SubSeq(b, i + 1, i + Len(a)) = a

\* navigation.py 90, 97 and 100: one line of the suggestions
Suggestion(text, n, h) == [text |-> text, n |-> n, h |-> h]

\* a slice [:3]
first_three(list) == SubSeq(list, 1, IF Len(list) < 3 THEN Len(list) ELSE 3)

\* navigation.py 79-102
get_navigation_suggestions(t, identifier) ==
    LET all_states == get_all_states(t)
        valid_sequences == [i \in 1..Len(all_states) |-> t.states[all_states[i]].sequence_id]
        close(s) == s - identifier.n <= 2 /\ identifier.n - s <= 2
        close_sequences == first_three(SelectSeq(valid_sequences, close))
        valid_hierarchical ==
            [i \in 1..Len(all_states) |-> t.states[all_states[i]].hierarchical_id]
        is_similar(h) == text_in(identifier.s, h) \/ text_in(h, identifier.s)
        similar == first_three(SelectSeq(valid_hierarchical, is_similar))
    IN (IF identifier.type = "int"
        THEN [i \in 1..Len(close_sequences) |->
                  Suggestion("Try sequence", close_sequences[i], None)]
        ELSE IF identifier.type = "str"
        THEN [i \in 1..Len(similar) |-> Suggestion("Try", 0, similar[i])]
        ELSE <<>>)
       \o <<Suggestion("Use '/states' to see all available states", 0, None)>>

\* mutant: the state the suggestions name first is made the current one
go_to_state_follows_suggestion(identifier) ==
    LET target == navigate_target(identifier)
        suggestions == get_navigation_suggestions(Tree, identifier)
    IN IF target = None
       THEN /\ last' = [op |-> "go_to_state", status |-> "Cannot navigate to",
                        ret |-> suggestions]
            /\ current_state' = IF suggestions[1].h # None THEN suggestions[1].h
                                ELSE current_state
            /\ UNCHANGED <<states, states_keys, sequence_index, hierarchy_index,
                           parent_children, sequence_counter>>
       ELSE /\ current_state' = target
            /\ last' = [op |-> "go_to_state", status |-> "ok", ret |-> target]
            /\ UNCHANGED <<states, states_keys, sequence_index, hierarchy_index,
                           parent_children, sequence_counter>>

\* navigation.py 14-28; 'ret' is the state returned, or the suggestions of the
\* NavigationError
go_to_state(identifier) ==
    LET target == navigate_target(identifier)
    IN IF target = None
       THEN /\ last' = [op |-> "go_to_state", status |-> "Cannot navigate to",
                        ret |-> get_navigation_suggestions(Tree, identifier)]
            /\ UNCHANGED tree_vars
       ELSE /\ current_state' = target
            /\ last' = IF current_state_property([Tree EXCEPT !.current_state = target]) = None
                       THEN [op |-> "go_to_state",
                             status |-> "Navigation failed - no current state",
                             ret |-> <<>>]
                       ELSE [op |-> "go_to_state", status |-> "ok", ret |-> target]
            /\ UNCHANGED <<states, states_keys, sequence_index, hierarchy_index,
                           parent_children, sequence_counter>>

\* commands.py 91-98 passes what parse_state_identifier made of the text: a
\* number, or a text with more than one field; a caller of the navigator may
\* also pass 0, the id of a root as a text, a malformed text, or None
GotoInputs ==
    {IntId(n) : n \in 0..(MaxSize + 1)}
    \cup {StrId(h) : h \in DOMAIN states}
    \cup {StrId(<<1, MaxSize + 1>>), StrId(<<1, -1>>), NoneId}

goto == \E identifier \in GotoInputs : go_to_state(identifier)

\* a tree that grows by add_state, and the moves of navigate_to and of
\* go_to_state of its navigator
NextGoto ==
    \/ add /\ UNCHANGED navigator
    \/ navigate /\ UNCHANGED navigator
    \/ clear /\ UNCHANGED navigator
    \/ goto /\ UNCHANGED navigator

SpecGoto == Init /\ [][NextGoto]_vars

\* ------------------------------------------------------------------ relatives
\* tree.py 118-125
get_siblings(t, state_id) ==
    IF state_id \notin DOMAIN t.states \/ t.states[state_id].parent_id = None
    THEN <<>>
    ELSE LET siblings == get_children(t, t.states[state_id].parent_id)
             other(s) == t.states[s].hierarchical_id # state_id
         IN SelectSeq(siblings, other)

\* tree.py 146-152: the loop of get_subtree
RECURSIVE subtree_walk(_, _, _)
subtree_walk(t, queue, subtree) ==
    IF queue = <<>> THEN subtree
    ELSE LET current_id == Head(queue)
         IN IF current_id \in DOMAIN t.states
            THEN subtree_walk(t, Tail(queue) \o DictGet(t.parent_children, current_id, <<>>),
                              Append(subtree, current_id))
            ELSE subtree_walk(t, Tail(queue), subtree)

\* tree.py 139-154
get_subtree(t, state_id) ==
    IF state_id \notin DOMAIN t.states THEN <<>>
    ELSE subtree_walk(t, <<state_id>>, <<>>)

\* tree.py 139-154: a call; the list it returns is get_subtree(Tree, state_id)
get_subtree_call(state_id) ==
    /\ last' = [op |-> "get_subtree", status |-> "ok", ret |-> None]
    /\ UNCHANGED tree_vars

subtree_query == \E state_id \in StateIdInputs : get_subtree_call(state_id)

\* tree.py 118-125: a call; the list it returns is get_siblings(Tree, state_id)
get_siblings_call(state_id) ==
    /\ last' = [op |-> "get_siblings", status |-> "ok", ret |-> None]
    /\ UNCHANGED tree_vars

siblings_query == \E state_id \in StateIdInputs : get_siblings_call(state_id)

\* the operations that change a ConversationTree, and the queries for the
\* relatives of a state
NextRelatives ==
    \/ add /\ UNCHANGED navigator
    \/ navigate /\ UNCHANGED navigator
    \/ update /\ UNCHANGED navigator
    \/ clear /\ UNCHANGED navigator
    \/ subtree_query /\ UNCHANGED navigator
    \/ siblings_query /\ UNCHANGED navigator

SpecRelatives == Init /\ [][NextRelatives]_vars

\* ------------------------------------------------------------------ every method
\* navigation.py 65-77: what get_navigation_context returns
get_navigation_context(t) ==
    LET current == current_state_property(t)
    IN IF current = None
       THEN [current |-> None, parent |-> None, children |-> <<>>, siblings |-> <<>>,
             path_to_root |-> <<>>]
       ELSE [current |-> current,
             parent |-> get_parent(t, t.states[current].hierarchical_id),
             children |-> get_children(t, t.states[current].hierarchical_id),
             siblings |-> get_siblings(t, t.states[current].hierarchical_id),
             path_to_root |-> get_path_to_root(t, t.states[current].hierarchical_id)]

\* navigation.py 65-77: a call; the dictionary it returns is
\* get_navigation_context(Tree)
context_query ==
    /\ last' = [op |-> "get_navigation_context", status |-> "ok",
                ret |-> get_navigation_context(Tree).current]
    /\ UNCHANGED tree_vars

\* tree.py 106-109: a call; the list it returns is get_children(Tree, state_id)
get_children_call(state_id) ==
    /\ last' = [op |-> "get_children", status |-> "ok", ret |-> None]
    /\ UNCHANGED tree_vars

children_query == \E state_id \in StateIdInputs : get_children_call(state_id)

\* tree.py 111-116: a call; it returns the parent, or None
get_parent_call(state_id) ==
    /\ last' = [op |-> "get_parent", status |-> "ok", ret |-> get_parent(Tree, state_id)]
    /\ UNCHANGED tree_vars

parent_query == \E state_id \in StateIdInputs : get_parent_call(state_id)

\* persistence.py 19-58: the tree is written to a file with to_dict; a name
\* that validate_filename refuses raises PersistenceError
save_conversation(valid_name) ==
    /\ last' = [op |-> "save_conversation",
                status |-> IF valid_name THEN "ok" ELSE "PersistenceError",
                ret |-> None]
    /\ UNCHANGED tree_vars

save == \E valid_name \in BOOLEAN : save_conversation(valid_name)

\* every method of a ConversationTree that changes it or reads it, the context
\* of its navigator, and the save of the tree
NextMethods ==
    \/ add /\ UNCHANGED navigator
    \/ navigate /\ UNCHANGED navigator
    \/ update /\ UNCHANGED navigator
    \/ clear /\ UNCHANGED navigator
    \/ find_query /\ UNCHANGED navigator
    \/ children_query /\ UNCHANGED navigator
    \/ parent_query /\ UNCHANGED navigator
    \/ siblings_query /\ UNCHANGED navigator
    \/ path_query /\ UNCHANGED navigator
    \/ subtree_query /\ UNCHANGED navigator
    \/ messages_query /\ UNCHANGED navigator
    \/ context_query /\ UNCHANGED navigator
    \/ save /\ UNCHANGED navigator

SpecMethods == Init /\ [][NextMethods]_vars

\* ------------------------------------------------------------------ application
\* tree.py 25-28
current_state_id(t) == t.current_state

\* mutant: the state is added when the message is sent, with the response still
\* to come
handle_chat_message_adds_first(backend_ok) ==
    add_state_call(current_state_id(Tree))

\* main.py 146-184: the backend is asked first (161-162); when it raises, the
\* error is shown and add_state is not reached; when it has returned the whole
\* response, add_state is called with the current state as the parent
handle_chat_message(backend_ok) ==
    IF backend_ok
    THEN add_state_call(current_state_id(Tree))
    ELSE /\ last' = [op |-> "chat", status |-> "Chat failed", ret |-> None]
         /\ UNCHANGED tree_vars

chat ==
    /\ size(sequence_counter, states) < MaxSize
    /\ \E backend_ok \in BOOLEAN : handle_chat_message(backend_ok)
    /\ UNCHANGED navigator

\* a call of context.navigator by a command: the navigator moves in the tree it
\* holds; when that is not the tree of the application, the tree of the
\* application stays as it is
on_navigator_tree(op, move) ==
    IF navigator.tree = "self.tree"
    THEN move
    ELSE /\ last' = [op |-> op, status |-> "moved in an earlier tree", ret |-> None]
         /\ UNCHANGED tree_vars

\* the texts typed after /goto: a number, a stored id, an id that is not
\* stored, a text that is no identifier
GotoTexts ==
    {<<n>> : n \in 0..(MaxSize + 1)} \cup DOMAIN states
    \cup {<<1, MaxSize + 1>>, <<1, -1>>}

\* commands.py 87-101: GotoCommand.execute with an argument
GotoCommand(text) ==
    LET parsed_id == parse_state_identifier(text)
    IN IF parsed_id.type = "none"
       THEN /\ last' = [op |-> "goto", status |-> "Invalid state identifier",
                        ret |-> None]
            /\ UNCHANGED tree_vars
       ELSE on_navigator_tree("go_to_state", go_to_state(parsed_id))

goto_command ==
    /\ \E text \in GotoTexts : GotoCommand(text)
    /\ UNCHANGED navigator

\* commands.py 118-123: UpCommand.execute
up_command ==
    /\ on_navigator_tree("go_up", go_up)
    /\ UNCHANGED navigator

\* commands.py 140-146: DownCommand.execute with a number as its argument
down_command ==
    /\ \E branch_index \in BranchIndexes :
           on_navigator_tree("go_down", go_down(branch_index))
    /\ UNCHANGED navigator

\* commands.py 168-193: TagCommand.execute
tag_command == tag /\ UNCHANGED navigator

\* commands.py 276-278: NewCommand.execute clears the tree of the context
new_command == clear /\ UNCHANGED navigator

\* commands.py 229-241: SaveCommand.execute
save_command ==
    /\ IF state_count(Tree) = 0
       THEN /\ last' = [op |-> "save", status |-> "No conversation to save",
                        ret |-> None]
            /\ UNCHANGED tree_vars
       ELSE save
    /\ UNCHANGED navigator

\* main.py 65-120 and 186-254: what the user types, one line at a time: a chat
\* message or a command
NextApp ==
    \/ chat
    \/ goto_command
    \/ up_command
    \/ down_command
    \/ tag_command
    \/ new_command
    \/ save_command
    \/ load

SpecApp == Init /\ [][NextApp]_vars

\* ------------------------------------------------------------------ moved records
\* dataclasses.replace(state, parent_id=p): the stored record of state_id with
\* the id of another stored state as its parent
MovedRecords(state_id) ==
    {[states[h] EXCEPT !.parent_id = p] :
         h \in DOMAIN states \cap {state_id}, p \in DOMAIN states \ {state_id}}

\* update_state called with a record whose parent_id the caller has replaced
move ==
    \E state_id \in StateIdInputs :
        \E updated_state \in MovedRecords(state_id) :
            /\ update_state(state_id, updated_state)
            /\ size(sequence_counter', states') <= MaxSize

\* a tree whose records a caller stores back with another parent_id
NextMoved ==
    \/ add /\ UNCHANGED navigator
    \/ navigate /\ UNCHANGED navigator
    \/ move /\ UNCHANGED navigator
    \/ clear /\ UNCHANGED navigator

SpecMoved == Init /\ [][NextMoved]_vars

\* ------------------------------------------------------------------ claims
\* the last dot-separated field stripped from a hierarchical id
strip_last_segment(hid) == SubSeq(hid, 1, Len(hid) - 1)

\* the sequence_id add_state assigned to the state stored under hid
assigned_sequence_id(hid) == hierarchy_index[hid]

\* C1: after any mix of add_state calls that succeed and that fail with
\* StateNotFoundError, the sequence_ids assigned to the stored states are exactly
\* 1..N, N the number of stored states.
C1_SequenceIdsAreOneToN ==
    {assigned_sequence_id(hid) : hid \in DOMAIN states} = 1..Cardinality(DOMAIN states)

\* C1: the case: a state was stored by a call that came after a failed call
C1_StoredAfterFailedCall ==
    /\ last = [op |-> "add_state", status |-> "ok", ret |-> current_state]
    /\ sequence_counter > Cardinality(DOMAIN states)

\* C2: every stored state without a parent_id has a hierarchical_id with no dot
\* that is the decimal form of its sequence_id; every other stored state has a
\* hierarchical_id that, with its last field stripped, is its parent_id, and that
\* parent_id is stored.
C2_IdEncodesParent ==
    \A hid \in DOMAIN states :
        LET state == states[hid]
        IN IF state.parent_id = None
           THEN state.hierarchical_id = <<state.sequence_id>>
           ELSE /\ strip_last_segment(state.hierarchical_id) = state.parent_id
                /\ state.parent_id \in DOMAIN states

\* C2: the case: a state under a parent is stored
C2_ChildStored ==
    \E hid \in DOMAIN states : states[hid].parent_id # None

\* the ids a child list may be asked for: stored ids and keys of a child index
asked_ids(t, u) ==
    DOMAIN t.states \cup DOMAIN t.parent_children \cup DOMAIN u.parent_children

\* C3: the tree restored from the dictionary of a tree has the same state_count,
\* the same current_state_id, the same records, the same ordered child list for
\* every id and the same get_conversation_messages(id) for every stored id.
C3_RoundTrip ==
    LET restored == from_dict(to_dict(Tree))
    IN /\ state_count(restored) = state_count(Tree)
       /\ restored.current_state = current_state
       /\ restored.states = states
       /\ \A id \in asked_ids(Tree, restored) :
              get_children(restored, id) = get_children(Tree, id)
       /\ \A id \in DOMAIN states :
              get_conversation_messages(restored, id) = get_conversation_messages(Tree, id)

\* C3: the case: a tree with a child list, a tagged record and a current state
C3_TreeWithTagsAndChildren ==
    /\ \E p \in DOMAIN parent_children : Len(parent_children[p]) >= 2
    /\ \E hid \in DOMAIN states : states[hid].tags # {}
    /\ current_state # None

\* C8: the record add_state returns, which is the record it stores, has
\* is_branch = TRUE exactly when its parent had a child before the insertion
\* (the child list now holds one more than it did).
C8_IsBranchIffParentHadChild ==
    (last.op = "add_state" /\ last.status = "ok") =>
        LET state == states[last.ret]
        IN is_branch(state) =
               (/\ state.parent_id # None
                /\ Len(DictGet(parent_children, state.parent_id, <<>>)) > 1)

\* C8: the case: add_state has just stored a second child
C8_SecondChildAdded ==
    /\ last.op = "add_state" /\ last.status = "ok"
    /\ states[last.ret].parent_id # None
    /\ Len(DictGet(parent_children, states[last.ret].parent_id, <<>>)) > 1

\* how often x occurs in the list
occurrences(list, x) == Cardinality({i \in 1..Len(list) : list[i] = x})

\* C9: for every stored state x with a parent_id, get_parent(x) is a stored
\* state and get_children of that parent's id holds x exactly once; and every
\* state get_children(p) returns has parent_id = p.
C9_ParentAndChildrenAgree ==
    /\ \A x \in DOMAIN states :
           states[x].parent_id # None =>
               /\ get_parent(Tree, x) # None
               /\ occurrences(get_children(Tree, states[get_parent(Tree, x)].hierarchical_id),
                              x) = 1
    /\ \A p \in DOMAIN states \cup DOMAIN parent_children :
           \A i \in 1..Len(get_children(Tree, p)) :
               states[get_children(Tree, p)[i]].parent_id = p

\* C9: the case: a parent with two children
C9_ParentWithChildren ==
    \E p \in DOMAIN states : Len(get_children(Tree, p)) >= 2

\* C4: a successful add_state stores its record under a hierarchical_id that was
\* not in the tree, makes state_count one larger and leaves every record stored
\* before as it was; no call but clear removes a stored record.
C4_AddNeverOverwrites ==
    [][/\ (last'.op = "add_state" /\ last'.status = "ok") =>
              /\ last'.ret \notin DOMAIN states
              /\ last'.ret \in DOMAIN states'
              /\ state_count(Tree') = state_count(Tree) + 1
              /\ \A hid \in DOMAIN states :
                     hid \in DOMAIN states' /\ states'[hid] = states[hid]
       /\ last'.op # "clear" => DOMAIN states \subseteq DOMAIN states'
      ]_vars

\* C4: the case: the conversation went on below 1.1, then add_state continued
\* from the earlier point 1 and stored 1.2
C4_ContinuedFromEarlierPoint ==
    /\ last = [op |-> "add_state", status |-> "ok", ret |-> <<1, 2>>]
    /\ <<1, 1, 1>> \in DOMAIN states

\* C5: navigate_to, whether it returns True or False, leaves the record store
\* (and so the tags of every record), the indices, every child list and the
\* counter as they were.
C5_NavigateChangesOnlyCurrent ==
    [][last'.op = "navigate_to" =>
           /\ states' = states
           /\ states_keys' = states_keys
           /\ sequence_index' = sequence_index
           /\ hierarchy_index' = hierarchy_index
           /\ parent_children' = parent_children
           /\ sequence_counter' = sequence_counter
      ]_vars

\* C5: the case: navigate_to has moved away from a state that carries a tag
C5_NavigatedAwayFromTaggedState ==
    /\ last.op = "navigate_to" /\ last.status = "True"
    /\ \E hid \in DOMAIN states : states[hid].tags # {} /\ hid # current_state

\* the stored state an identifier stands for, None when it stands for none: an
\* integer, and a text of digits, is a sequence number; any other text is a
\* hierarchical id
state_with_sequence(n) ==
    IF \E hid \in DOMAIN states : n \in DOMAIN sequence_index /\ sequence_index[n] = hid
    THEN sequence_index[n] ELSE None

resolves_to(identifier) ==
    IF identifier.type = "int" THEN state_with_sequence(identifier.n)
    ELSE IF Len(identifier.s) = 1
    THEN IF identifier.s[1] > 0 THEN state_with_sequence(identifier.s[1]) ELSE None
    ELSE IF identifier.s \in DOMAIN states THEN identifier.s ELSE None

\* C6: navigate_to on an identifier that resolves to a stored state sets current
\* to that state's hierarchical_id and returns True (the text of a stored
\* hierarchical id leads to that very state); on any other identifier it
\* returns False and current keeps its value.
C6_NavigateHitOrMiss ==
    [][last'.op = "navigate_to" => \A identifier \in Identifiers :
           navigate_to(identifier) =>
               /\ IF resolves_to(identifier) # None
                  THEN /\ current_state' = states[resolves_to(identifier)].hierarchical_id
                       /\ last'.status = "True"
                  ELSE /\ current_state' = current_state
                       /\ last'.status = "False"
               /\ (identifier.type = "str" /\ identifier.s \in DOMAIN states) =>
                      current_state' = identifier.s
      ]_vars

\* C6: the case: navigate_to has returned False on a tree with a current state
C6_MissKeepsCurrent ==
    /\ last.op = "navigate_to" /\ last.status = "False"
    /\ current_state # None

\* the states stored under parent p so far, counted by their keys
added_under(p) ==
    {hid \in DOMAIN states : Len(hid) = Len(p) + 1 /\ strip_last_segment(hid) = p}

\* C7: the k-th successful add_state under a parent p stores p.k, whatever was
\* added elsewhere in between; and no call changes the hierarchical_id of a
\* state that stays stored or its position in the child list of its parent.
C7_BranchSlotsPermanent ==
    [][/\ (last'.op = "add_state" /\ last'.status = "ok"
           /\ states'[last'.ret].parent_id # None) =>
              LET p == states'[last'.ret].parent_id
              IN /\ last'.ret = Append(p, Cardinality(added_under(p)) + 1)
                 /\ parent_children'[p][Len(parent_children'[p])] = last'.ret
       /\ \A hid \in DOMAIN states \cap DOMAIN states' :
              states'[hid].hierarchical_id = states[hid].hierarchical_id
       /\ \A p \in DOMAIN parent_children \cap DOMAIN parent_children' :
              \A k \in 1..Len(parent_children[p]) :
                  /\ k <= Len(parent_children'[p])
                  /\ parent_children'[p][k] = parent_children[p][k]
       /\ \A p \in DOMAIN parent_children' :
              \A k \in 1..Len(parent_children'[p]) :
                  parent_children'[p][k] = Append(p, k)
      ]_vars

\* C7: the case: a parent has its slots 1 and 2 taken, and between the two
\* add_state calls another call took a sequence number
C7_SecondSlotAfterOtherCalls ==
    \E p \in DOMAIN parent_children :
        /\ Len(parent_children[p]) >= 2
        /\ parent_children[p][2] = Append(p, 2)
        /\ hierarchy_index[Append(p, 2)] > hierarchy_index[Append(p, 1)] + 1

\* C10: add_state with a parent_id that is not None and is not the id of a
\* stored state raises StateNotFoundError and adds no record.
C10_UnknownParentRaises ==
    [][last'.op = "add_state" => \A parent_id \in ParentInputs :
           (parent_id # None /\ parent_id \notin DOMAIN states
            /\ add_state_call(parent_id)) =>
               /\ last'.status = "StateNotFoundError"
               /\ states' = states
               /\ states_keys' = states_keys
               /\ sequence_index' = sequence_index
               /\ parent_children' = parent_children
      ]_vars

\* C10: the case: add_state has raised StateNotFoundError on a tree that holds
\* states
C10_RaisedOnTreeWithStates ==
    /\ last = [op |-> "add_state", status |-> "StateNotFoundError", ret |-> None]
    /\ DOMAIN states # {}

\* the stored states from a root down to x, each the parent_id of the next
RECURSIVE root_chain(_)
root_chain(x) ==
    IF states[x].parent_id = None \/ states[x].parent_id \notin DOMAIN states
    THEN <<x>>
    ELSE Append(root_chain(states[x].parent_id), x)

\* C11: for every stored x with the path p1..pk = x from its root,
\* get_conversation_messages(x) is the 2k entries (user, p1.message),
\* (assistant, p1.response), ..., (user, pk.message), (assistant, pk.response), so
\* no state off the path contributes; the call without an id answers for the
\* current state, and with no current state it returns the empty list.
C11_MessagesFollowPath ==
    /\ \A x \in DOMAIN states :
           LET p == root_chain(x)
               m == get_conversation_messages(Tree, x)
           IN /\ Len(m) = 2 * Len(p)
              /\ \A i \in 1..Len(p) :
                     /\ m[2 * i - 1] = [role |-> "user", content |-> states[p[i]].message]
                     /\ m[2 * i] = [role |-> "assistant", content |-> states[p[i]].response]
    /\ get_conversation_messages(Tree, None) =
           IF current_state = None THEN <<>>
           ELSE get_conversation_messages(Tree, current_state)

\* the messages of "1.2" were asked for, with its sibling "1.1" stored: 4 entries
C11_SiblingOffPath ==
    /\ last.op = "get_conversation_messages"
    /\ {<<1>>, <<1, 1>>, <<1, 2>>} \subseteq DOMAIN states
    /\ current_state = <<1, 2>>
    /\ root_chain(<<1, 2>>) = <<<<1>>, <<1, 2>>>>
    /\ Len(get_conversation_messages(Tree, None)) = 4

\* C12 (as stated): a get_path_to_root call for an id that is not stored ends
\* with the not-found error.
C12_UnknownIdRaisesNotFound ==
    [][last'.op = "get_path_to_root" =>
           \A state_id \in StateIdInputs :
               (state_id \notin DOMAIN states /\ get_path_to_root_call(state_id))
                   => last'.status = "StateNotFoundError"]_vars

\* C12 (amended): a get_path_to_root call for an id that is not stored raises
\* nothing and returns the empty path, never a partial one.
C12_UnknownIdGivesEmptyPath ==
    [][last'.op = "get_path_to_root" =>
           \A state_id \in StateIdInputs :
               (state_id \notin DOMAIN states /\ get_path_to_root_call(state_id))
                   => /\ last'.status = "ok"
                      /\ get_path_to_root(Tree, state_id) = <<>>]_vars

\* the path of an id that is not stored was asked for on a tree with states
C12_AskedForUnknownId ==
    /\ last.op = "get_path_to_root"
    /\ last.status = "ok"
    /\ DOMAIN states # {}
    /\ <<MaxSize + 1>> \notin DOMAIN states
    /\ get_path_to_root(Tree, <<MaxSize + 1>>) = <<>>

fresh_tree ==
    [states |-> EmptyDict, states_keys |-> <<>>, sequence_index |-> EmptyDict,
     hierarchy_index |-> EmptyDict, parent_children |-> EmptyDict,
     current_state |-> None, sequence_counter |-> 0]

\* C14: after clear() the state count is 0, there is no current state, every
\* index is empty and the counter is 0, so the tree is the one a constructor
\* gives; a lookup of any identifier, the ids from before the clear among them,
\* misses, and a root added right after gets id "1" and sequence_id 1.
C14_ClearGivesFreshTree ==
    [][/\ last'.op = "clear" =>
              /\ Tree' = fresh_tree
              /\ state_count(Tree') = 0
              /\ \A identifier \in Identifiers : find_state(Tree', identifier) = None
              /\ \A h \in DOMAIN states : find_state(Tree', StrId(h)) = None
       /\ (last.op = "clear" /\ last'.op = "add_state" /\ last'.status = "ok") =>
              /\ last'.ret = <<1>>
              /\ states'[<<1>>].sequence_id = 1
              /\ sequence_counter' = 1]_vars

\* clear() has just returned
C14_Cleared ==
    /\ last.op = "clear"
    /\ states = EmptyDict
    /\ sequence_counter = 0
    /\ current_state = None

C16_GoDownOutOfRange ==
    [][(last'.op = "go_down" /\ current_state # None) =>
           LET n == Len(get_children(Tree, current_state))
           IN \A branch_index \in BranchIndexes :
                  (/\ branch_index < 1 \/ branch_index > n
                   /\ go_down(branch_index))
                      => /\ last'.status \in {"Invalid branch index",
                                              "No child states available"}
                         /\ UNCHANGED tree_vars
                         /\ n >= 1 => /\ last'.status = "Invalid branch index"
                                      /\ last'.ret = <<1, n>>]_vars

\* go_down was refused on a state with two children, reporting the range 1-2
C16_RefusedWithTwoChildren ==
    /\ last = [op |-> "go_down", status |-> "Invalid branch index", ret |-> <<1, 2>>]
    /\ current_state # None
    /\ Len(get_children(Tree, current_state)) = 2

\* C17: find_state(n) for an integer n returns the stored record whose
\* sequence_id is n, find_state(h) for a string h the stored record whose
\* hierarchical_id is h, and an identifier that matches no stored record (0, a
\* negative number, malformed text) gives None without raising; the call
\* changes nothing in the tree.
C17_FindStateByEitherId ==
    [][last'.op = "find_state" => \A identifier \in FindInputs :
           find_state_call(identifier) =>
               /\ UNCHANGED tree_vars
               /\ last'.status = "ok"
               /\ identifier.type = "int" =>
                      IF \E h \in DOMAIN states : states[h].sequence_id = identifier.n
                      THEN /\ last'.ret # None
                           /\ states[last'.ret].sequence_id = identifier.n
                      ELSE last'.ret = None
               /\ identifier.type = "str" =>
                      IF \E h \in DOMAIN states : states[h].hierarchical_id = identifier.s
                      THEN /\ last'.ret # None
                           /\ states[last'.ret].hierarchical_id = identifier.s
                      ELSE last'.ret = None]_vars

\* C17: the case: find_state has returned a state other than the current one
C17_FoundOtherState ==
    /\ last.op = "find_state"
    /\ last.ret # None
    /\ current_state # None
    /\ last.ret # current_state

\* C18: a load that fails (the file is missing, its text is not JSON, or a state
\* of it lacks a required key) reports PersistenceError, and the tree of the
\* session (records, indices, current state, counter), which is the tree the
\* navigator works on, is exactly as before: nothing decoded becomes visible.
C18_FailedLoadKeepsTree ==
    [][last'.op = "load" =>
           \A file \in Files :
               (/\ \/ ~file.exists
                   \/ ~file.is_json
                   \/ \E i \in 1..Len(file.data.states) :
                          "message" \notin DOMAIN file.data.states[i][2]
                /\ handle_load_menu(file))
                   => /\ last'.status = "PersistenceError"
                      /\ UNCHANGED tree_vars]_vars

\* a load has failed in a session whose tree has states, one of them tagged
C18_LoadFailedOnTaggedTree ==
    /\ last = [op |-> "load", status |-> "PersistenceError", ret |-> None]
    /\ Cardinality(DOMAIN states) >= 2
    /\ current_state # None
    /\ \E h \in DOMAIN states : states[h].tags # {}

\* the walk along parent_id from id ends in at most the given number of steps
RECURSIVE walk_ends_within(_, _, _)
walk_ends_within(t, id, steps) ==
    IF id = None \/ id \notin DOMAIN t.states THEN TRUE
    ELSE IF steps = 0 THEN FALSE
    ELSE walk_ends_within(t, t.states[id].parent_id, steps - 1)

\* the parent_id links of the states of a file that decodes form a cycle
links_form_cycle(file) ==
    /\ file.exists /\ file.is_json
    /\ \A i \in 1..Len(file.data.states) : RequiredKeys \subseteq DOMAIN file.data.states[i][2]
    /\ LET t == from_dict(file.data)
       IN \E x \in DOMAIN t.states : ~walk_ends_within(t, x, state_count(t))

\* C19: the load of a snapshot whose parent_id links form a cycle fails with
\* PersistenceError, and no load yields a tree in which the walk along
\* parent_id from a stored state (the walk of get_path_to_root and of
\* get_conversation_messages) goes on for more than state_count steps.
C19_CyclicSnapshotRefused ==
    [][last'.op = "load" =>
           /\ \A file \in EditedFiles :
                  (links_form_cycle(file) /\ handle_load_menu(file))
                      => last'.status = "PersistenceError"
           /\ \A x \in DOMAIN states' :
                  walk_ends_within(Tree', x, state_count(Tree'))]_vars

\* C19: the case: the cyclic snapshot was loaded, "1" has the parent "1.1"
C19_CyclicTreeLoaded ==
    /\ last = [op |-> "load", status |-> "ok", ret |-> None]
    /\ {<<1>>, <<1, 1>>} \subseteq DOMAIN states
    /\ states[<<1>>].parent_id = <<1, 1>>
    /\ states[<<1, 1>>].parent_id = <<1>>

\* C20: for every stored id, the message, response, model, timestamp,
\* sequence_id and parent_id of its record stay as they are through every
\* add_state, navigate_to and update_state call (with any record update_state
\* accepts) until clear; only the tags may differ.
C20_OnlyTagsChange ==
    [][last'.op # "clear" =>
           \A h \in DOMAIN states :
               /\ h \in DOMAIN states'
               /\ states'[h].message = states[h].message
               /\ states'[h].response = states[h].response
               /\ states'[h].model = states[h].model
               /\ states'[h].timestamp = states[h].timestamp
               /\ states'[h].sequence_id = states[h].sequence_id
               /\ states'[h].parent_id = states[h].parent_id]_vars

\* C20: the case: update_state has accepted a record for a state with a parent
C20_UpdateAccepted ==
    /\ last = [op |-> "update_state", status |-> "True", ret |-> None]
    /\ <<1, 1>> \in DOMAIN states
    /\ states[<<1, 1>>].parent_id = None
    /\ states[<<1, 1>>].message # Message(hierarchy_index[<<1, 1>>])

\* C21: an update_state(id, rec) that returns True changes only the record
\* stored at id: find_state(id) then returns rec, with the tags of rec, while
\* the state count, the current state, the counter, every other record and every
\* child list are as before (records are values: storing the new one leaves the
\* one the caller held as it is).
C21_UpdateChangesOneRecord ==
    [][(last'.op = "update_state" /\ last'.status = "True") =>
           \A state_id \in StateIdInputs : \A updated_state \in UpdateInputs(state_id) :
               (/\ state_id \in DOMAIN states
                /\ updated_state.hierarchical_id = state_id
                /\ update_state(state_id, updated_state))
                   => /\ find_state(Tree', StrId(state_id)) = state_id
                      /\ states'[state_id] = updated_state
                      /\ states'[state_id].tags = updated_state.tags
                      /\ state_count(Tree') = state_count(Tree)
                      /\ DOMAIN states' = DOMAIN states
                      /\ \A h \in DOMAIN states \ {state_id} : states'[h] = states[h]
                      /\ UNCHANGED <<states_keys, sequence_index, parent_children,
                                     current_state, sequence_counter>>]_vars

\* a tag was put on a state that is not the current one, in a tree with a child list
C21_TaggedOtherState ==
    /\ last = [op |-> "update_state", status |-> "True", ret |-> None]
    /\ current_state # None
    /\ \E h \in DOMAIN states \ {current_state} : states[h].tags # {}
    /\ states[current_state].tags = {}
    /\ DOMAIN parent_children # {}

\* C22: for every record s (one with a parent_id, several tags and the branch
\* mark among them), from_dict(to_dict(s)) has the hierarchical_id, sequence_id,
\* parent_id, message, response, model, timestamp, set of tags and is_branch of s.
C22_RecordRoundTrip ==
    [][last'.op = "from_dict" =>
           /\ round_trip
           /\ last'.ret.hierarchical_id = last.ret.hierarchical_id
           /\ last'.ret.sequence_id = last.ret.sequence_id
           /\ last'.ret.parent_id = last.ret.parent_id
           /\ last'.ret.message = last.ret.message
           /\ last'.ret.response = last.ret.response
           /\ last'.ret.model = last.ret.model
           /\ last'.ret.timestamp = last.ret.timestamp
           /\ last'.ret.tags = last.ret.tags
           /\ is_branch(last'.ret) = is_branch(last.ret)]_vars

\* a record with a parent, two tags or more, the branch mark and a time with
\* microseconds has been written and read back
C22_RestoredBranchRecord ==
    /\ last.op = "from_dict"
    /\ last.ret.parent_id = <<1>>
    /\ Cardinality(last.ret.tags) >= 2
    /\ is_branch(last.ret)
    /\ last.ret.timestamp.usec # 0

\* the tags a caller passes to add_tag and remove_tag
TagArguments == {"important", "todo", " important "}

\* the fields of a record other than its tags
untagged(state) == [state EXCEPT !.tags = {}]

\* C23 (as stated): add_tag(t) gives the old tags plus t and is idempotent,
\* remove_tag(t) the old tags minus t; for t not in s.tags,
\* s.add_tag(t).remove_tag(t) has the tags of s; no other field changes; the
\* tag command given twice with one tag restores the tags of the current state.
C23_TagOperations ==
    [][last'.op = "tag" =>
           /\ \A h \in DOMAIN states : \A t \in TagArguments :
                     LET s == states[h]
                     IN /\ add_tag(s, t).tags = s.tags \cup {t}
                        /\ add_tag(add_tag(s, t), t) = add_tag(s, t)
                        /\ remove_tag(s, t).tags = s.tags \ {t}
                        /\ t \notin s.tags => remove_tag(add_tag(s, t), t).tags = s.tags
                        /\ untagged(add_tag(s, t)) = untagged(s)
                        /\ untagged(remove_tag(s, t)) = untagged(s)
           /\ last'.status \in {"Added tag", "Removed tag"} =>
                     \A text \in TagTexts :
                         TagCommand(text) =>
                             /\ states'[current_state] = toggled(states[current_state], text)
                             /\ toggled(states'[current_state], text).tags
                                    = states[current_state].tags]_vars

\* C23 (amended): add_tag(t) gives the old tags plus t.strip() and is
\* idempotent, remove_tag(t) the old tags minus t.strip(); for t with t.strip()
\* not in s.tags, s.add_tag(t).remove_tag(t) has the tags of s; no other field
\* changes; the tag command given twice with one tag restores the tags of the
\* current state.
C23_TagOperationsStripped ==
    [][last'.op = "tag" =>
           /\ \A h \in DOMAIN states : \A t \in TagArguments :
                     LET s == states[h]
                     IN /\ add_tag(s, t).tags = s.tags \cup {strip(t)}
                        /\ add_tag(add_tag(s, t), t) = add_tag(s, t)
                        /\ remove_tag(s, t).tags = s.tags \ {strip(t)}
                        /\ strip(t) \notin s.tags
                               => remove_tag(add_tag(s, t), t).tags = s.tags
                        /\ untagged(add_tag(s, t)) = untagged(s)
                        /\ untagged(remove_tag(s, t)) = untagged(s)
           /\ last'.status \in {"Added tag", "Removed tag"} =>
                     \A text \in TagTexts :
                         TagCommand(text) =>
                             /\ states'[current_state] = toggled(states[current_state], text)
                             /\ toggled(states'[current_state], text).tags
                                    = states[current_state].tags]_vars

\* the tag command has removed one of the two tags of the current state
C23_OneOfTwoTagsRemoved ==
    /\ last = [op |-> "tag", status |-> "Removed tag", ret |-> None]
    /\ current_state # None
    /\ Cardinality(states[current_state].tags) = 1

read_by_navigate(identifier) ==
    IF identifier.type = "int" THEN identifier
    ELSE IF Len(identifier.s) = 1
    THEN IF identifier.s[1] > 0 THEN IntId(identifier.s[1]) ELSE NoneId
    ELSE IF \A i \in 1..Len(identifier.s) : identifier.s[i] >= 0
    THEN identifier ELSE NoneId

C25_AddStateUpdatesTogether ==
    [][(last'.op = "add_state" /\ last'.status = "ok") =>
           \A parent_id \in ParentInputs :
               add_state_call(parent_id) =>
                   LET hid == last'.ret
                       children == get_children(Tree', parent_id)
                   IN /\ hid \in DOMAIN states' /\ hid \notin DOMAIN states
                      /\ states'[hid].hierarchical_id = hid
                      /\ states'[hid].sequence_id = sequence_counter'
                      /\ states'[hid].parent_id = parent_id
                      /\ find_state(Tree', IntId(states'[hid].sequence_id)) = hid
                      /\ find_state(Tree', StrId(hid)) = hid
                      /\ parent_id # None =>
                             /\ children # <<>>
                             /\ children[Len(children)] = hid
                      /\ current_state_property(Tree') = hid]_vars

\* a second child has just been added under "1", after the first was tagged
C25_SecondChildAdded ==
    /\ last.op = "add_state" /\ last.status = "ok" /\ last.ret = <<1, 2>>
    /\ current_state = <<1, 2>>
    /\ <<1, 1>> \in DOMAIN states /\ states[<<1, 1>>].tags # {}

\* the stored ids whose record names p as its parent, in the order of insertion
stored_children(p) ==
    LET child_of_p(h) == states[h].parent_id = p
    IN SelectSeq(states_keys, child_of_p)

\* C26: after every operation (add_state, navigate_to, update_state with any
\* record it accepts, clear, load of a saved snapshot) the sequence index maps
\* exactly the sequence_ids of the stored records, find_state(s.sequence_id)
\* is s for every stored s, and the child list of every id p is exactly the
\* stored records whose parent_id is p, each once, in insertion order.
C26_IndicesInLockstep ==
    /\ DOMAIN sequence_index = {states[h].sequence_id : h \in DOMAIN states}
    /\ \A h \in DOMAIN states :
           find_state(Tree, IntId(states[h].sequence_id)) = h
    /\ \A p \in DOMAIN states \cup DOMAIN parent_children :
           DictGet(parent_children, p, <<>>) = stored_children(p)

\* update_state has accepted a record whose sequence_id and parent_id are not
\* those the state "1.1" was added with
C26_CallerRecordStored ==
    /\ last.op = "update_state" /\ last.status = "True"
    /\ <<1, 1>> \in DOMAIN states
    /\ states[<<1, 1>>].sequence_id # hierarchy_index[<<1, 1>>]
    /\ states[<<1, 1>>].parent_id = None
    /\ <<1, 1>> \in list_to_set(DictGet(parent_children, <<1>>, <<>>))

\* the last dot-separated field of a hierarchical id: the branch index
branch_index_of(hid) == hid[Len(hid)]

\* C27: in every tree reachable by add_state, navigate_to, update_state and
\* clear, the parent of each non-root state is stored with a strictly smaller
\* sequence_id, the walk along parent_id from any state ends within as many
\* steps as there are states (no cycle), and among the states with the same
\* parent a smaller branch index goes with a smaller sequence_id.
C27_ParentsAreOlder ==
    /\ \A h \in DOMAIN states :
           states[h].parent_id # None =>
               /\ states[h].parent_id \in DOMAIN states
               /\ states[states[h].parent_id].sequence_id < states[h].sequence_id
    /\ \A h \in DOMAIN states : walk_ends_within(Tree, h, state_count(Tree))
    /\ \A x, y \in DOMAIN states :
           (states[x].parent_id # None /\ states[x].parent_id = states[y].parent_id) =>
               (branch_index_of(x) < branch_index_of(y)
                    <=> states[x].sequence_id < states[y].sequence_id)

\* update_state has stored the root "1" with its own child "1.1" as parent
C27_RootMovedUnderItsChild ==
    /\ last.op = "update_state" /\ last.status = "True"
    /\ <<1, 1>> \in DOMAIN states
    /\ states[<<1>>].parent_id = <<1, 1>>
    /\ states[<<1, 1>>].parent_id = <<1>>

\* C28: for every stored id x, get_path_to_root(x) begins with a root, ends
\* with x, each element is the parent of the next, no state occurs twice, and
\* its length is the number of dot-separated fields of x (the depth of the
\* record); the call changes no tree state.
C28_PathFromRoot ==
    [][last'.op = "get_path_to_root" =>
           \A x \in DOMAIN states :
               get_path_to_root_call(x) =>
                   LET path == get_path_to_root(Tree, x)
                   IN /\ path # <<>>
                      /\ is_root(states[path[1]])
                      /\ path[Len(path)] = x
                      /\ \A i \in 1..(Len(path) - 1) :
                             get_parent(Tree, path[i + 1]) = path[i]
                      /\ \A i, j \in 1..Len(path) : path[i] = path[j] => i = j
                      /\ Len(path) = Len(x)
                      /\ Len(path) = depth(states[x])
                      /\ UNCHANGED tree_vars]_vars

\* a path was asked for in a tree where update_state has stored "1.1" with a
\* record that has no parent
C28_PathOfStateWithoutParent ==
    /\ last.op = "get_path_to_root" /\ last.status = "ok"
    /\ <<1, 1>> \in DOMAIN states
    /\ states[<<1, 1>>].parent_id = None
    /\ get_path_to_root(Tree, <<1, 1>>) = << <<1, 1>> >>

\* the stored states whose path to the root passes through x
through(x) == {y \in DOMAIN states : x \in list_to_set(get_path_to_root(Tree, y))}

\* C29: for every stored id x, get_subtree(x) returns x first and then exactly
\* the states whose path to the root passes through x, each once, every state
\* at depth d before any at depth d+1 and siblings in insertion order; for an
\* id that is not stored it returns the empty list; the call changes no tree
\* state.
C29_SubtreeBreadthFirst ==
    [][last'.op = "get_subtree" =>
           \A x \in StateIdInputs :
               get_subtree_call(x) =>
                   LET subtree == get_subtree(Tree, x)
                   IN /\ x \notin DOMAIN states => subtree = <<>>
                      /\ x \in DOMAIN states =>
                             /\ subtree # <<>> /\ subtree[1] = x
                             /\ list_to_set(subtree) = through(x)
                             /\ \A i, j \in 1..Len(subtree) :
                                    subtree[i] = subtree[j] => i = j
                             /\ \A i, j \in 1..Len(subtree) :
                                    i < j =>
                                        /\ depth(states[subtree[i]])
                                               <= depth(states[subtree[j]])
                                        /\ states[subtree[i]].parent_id
                                               = states[subtree[j]].parent_id
                                           => hierarchy_index[subtree[i]]
                                                  < hierarchy_index[subtree[j]]
                      /\ UNCHANGED tree_vars]_vars

\* the subtree of "1" was asked for after update_state has stored "1.1" with a
\* record that has no parent: the list still holds "1.1"
C29_SubtreeHoldsStateWithoutParent ==
    /\ last.op = "get_subtree"
    /\ <<1, 1>> \in DOMAIN states
    /\ states[<<1, 1>>].parent_id = None
    /\ <<1, 1>> \in list_to_set(get_subtree(Tree, <<1>>))

\* C30: get_siblings(x) is get_children(parent of x) with x removed, in
\* insertion order; it is empty for every root, also when there are several
\* roots, and for ids that are not stored; y is in get_siblings(x) if and only
\* if x is in get_siblings(y); the call changes no tree state.
C30_SiblingsOfParent ==
    [][last'.op = "get_siblings" =>
           \A x \in StateIdInputs :
               get_siblings_call(x) =>
                   LET siblings == get_siblings(Tree, x)
                       others(s) == s # x
                   IN /\ x \notin DOMAIN states => siblings = <<>>
                      /\ x \in DOMAIN states =>
                             /\ is_root(states[x]) => siblings = <<>>
                             /\ Len(x) = 1 => siblings = <<>>
                             /\ ~is_root(states[x]) =>
                                    siblings = SelectSeq(
                                        get_children(Tree, get_parent(Tree, x)), others)
                             /\ \A i, j \in 1..Len(siblings) :
                                    i < j => hierarchy_index[siblings[i]]
                                                 < hierarchy_index[siblings[j]]
                             /\ \A y \in DOMAIN states :
                                    y \in list_to_set(siblings)
                                        <=> x \in list_to_set(get_siblings(Tree, y))
                      /\ UNCHANGED tree_vars]_vars

\* the siblings were asked for after update_state has stored "1.1" with a
\* record that has no parent: "1.1" is a sibling of "1.2", "1.2" is none of "1.1"
C30_SiblingOnOneSide ==
    /\ last.op = "get_siblings"
    /\ <<1, 1>> \in list_to_set(get_siblings(Tree, <<1, 2>>))
    /\ get_siblings(Tree, <<1, 1>>) = <<>>

\* C31: with current = c having n children, go_down(k) for 1 <= k <= n sets
\* current to the k-th child of c in insertion order, whose hierarchical_id is
\* c followed by k, and changes nothing else; go_up from there leads back to c
\* (the child is no root and its parent is c, and a go_up step taken right
\* after the go_down ends at c); from a non-root c = p.j, go_up moves to p, and
\* go_down(j) from there leads back to c (c is the j-th child of p).
C31_DownAndUpAreInverse ==
    [][/\ last'.op = "go_down" =>
              \A k \in BranchIndexes :
                  LET c == current_state_property(Tree)
                  IN (/\ c # None
                      /\ 1 <= k /\ k <= Len(get_children(Tree, c))
                      /\ go_down(k))
                         => /\ last'.status = "ok"
                            /\ current_state' = get_children(Tree, c)[k]
                            /\ states[current_state'].hierarchical_id = Append(c, k)
                            /\ k > 1 => hierarchy_index[get_children(Tree, c)[k - 1]]
                                            < hierarchy_index[get_children(Tree, c)[k]]
                            /\ UNCHANGED <<states, states_keys, sequence_index,
                                           hierarchy_index, parent_children,
                                           sequence_counter>>
                            /\ ~is_root(states'[current_state'])
                            /\ get_parent(Tree', current_state') = c
       /\ (last'.op = "go_up" /\ last.op = "go_down" /\ last.status = "ok" /\ go_up) =>
              /\ last'.status = "ok"
              /\ current_state' = strip_last_segment(current_state)
       /\ (last'.op = "go_up" /\ go_up) =>
              LET c == current_state_property(Tree)
              IN (c # None /\ Len(c) > 1) =>
                     /\ last'.status = "ok"
                     /\ current_state' = strip_last_segment(c)
                     /\ Len(get_children(Tree', current_state')) >= branch_index_of(c)
                     /\ get_children(Tree', current_state')[branch_index_of(c)] = c
                     /\ UNCHANGED <<states, states_keys, sequence_index,
                                    hierarchy_index, parent_children,
                                    sequence_counter>>]_vars

\* go_down(1) has moved from "1" to "1.1", which update_state has stored with a
\* record that has no parent
C31_WentDownToStateWithoutParent ==
    /\ last.op = "go_down" /\ last.status = "ok" /\ last.ret = <<1, 1>>
    /\ current_state = <<1, 1>>
    /\ states[<<1, 1>>].parent_id = None

\* C32: go_to_state(identifier) on an identifier that resolves to a stored
\* state sets current to that state, returns it and changes nothing else; on
\* every other identifier it raises NavigationError with a list of suggestions
\* that is not empty, and current and the whole tree are as they were.
C32_GoToState ==
    [][last'.op = "go_to_state" =>
           \A identifier \in GotoInputs :
               go_to_state(identifier) =>
                   LET resolved == find_state(Tree, parsed_identifier(identifier))
                   IN IF resolved # None
                      THEN /\ last'.status = "ok"
                           /\ last'.ret = resolved
                           /\ current_state' = resolved
                           /\ current_state_property(Tree') = resolved
                           /\ UNCHANGED <<states, states_keys, sequence_index,
                                          hierarchy_index, parent_children,
                                          sequence_counter>>
                      ELSE /\ last'.status = "Cannot navigate to"
                           /\ Len(last'.ret) >= 1
                           /\ last'.ret[Len(last'.ret)].text
                                  = "Use '/states' to see all available states"
                           /\ UNCHANGED tree_vars]_vars

\* go_to_state was refused with current at "1.1", and the suggestions name a
\* stored state
C32_RefusedWithSuggestion ==
    /\ last.op = "go_to_state" /\ last.status = "Cannot navigate to"
    /\ Len(last.ret) = 2
    /\ last.ret[1].text = "Try" /\ last.ret[1].h = <<1>>
    /\ current_state = <<1, 1>>

\* the operations that only read the tree
Readers ==
    {"save_conversation", "find_state", "get_children", "get_parent", "get_siblings",
     "get_path_to_root", "get_subtree", "get_conversation_messages",
     "get_navigation_context"}

\* C33: the current pointer changes only by a successful add_state (to the new
\* id), a successful navigate_to (to the target) or clear (to absent);
\* update_state, a failed add_state, a failed navigate_to, save, find_state,
\* get_children, get_parent, get_siblings, get_path_to_root, get_subtree,
\* get_conversation_messages and get_navigation_context leave it as it was.
C33_CurrentChangesByThreeOperations ==
    [][/\ current_state' # current_state =>
              \/ /\ last'.op = "add_state" /\ last'.status = "ok"
                 /\ current_state' = last'.ret
                 /\ current_state' \notin DOMAIN states
              \/ /\ last'.op = "navigate_to" /\ last'.status = "True"
                 /\ \E identifier \in Identifiers :
                        /\ navigate_to(identifier)
                        /\ current_state' = find_state(Tree, parsed_identifier(identifier))
              \/ /\ last'.op = "clear"
                 /\ current_state' = None
       /\ last'.op = "update_state" => current_state' = current_state
       /\ (last'.op = "add_state" /\ last'.status # "ok") => current_state' = current_state
       /\ (last'.op = "navigate_to" /\ last'.status # "True") =>
              current_state' = current_state
       /\ last'.op \in Readers => current_state' = current_state]_vars

\* a failed add_state has left current at "1.1", with a sibling and a second
\* root stored
C33_FailedAddKeptCurrent ==
    /\ last.op = "add_state" /\ last.status = "StateNotFoundError"
    /\ current_state = <<1, 1>>
    /\ state_count(Tree) >= 2

\* C34: an add_state that fails because the parent is not stored leaves the
\* record store, the sequence index, the child lists, the current pointer and
\* the sequence counter as they were, so that the next add_state under any
\* parent it accepts gets the sequence_id and the hierarchical_id it would have
\* got without the failed call.
C34_FailedAddChangesNothing ==
    [][(last'.op = "add_state" /\ last'.status = "StateNotFoundError") =>
           /\ UNCHANGED <<states, states_keys, sequence_index, hierarchy_index,
                          parent_children, current_state>>
           /\ sequence_counter' = sequence_counter
           /\ \A parent_id \in {None} \cup DOMAIN states :
                  new_state(parent_id, sequence_counter' + 1, parent_children',
                            Message(0), Response(0), Now(0))
                      = new_state(parent_id, sequence_counter + 1, parent_children,
                                  Message(0), Response(0), Now(0))]_vars

\* add_state has failed on a tree that holds the root "1" alone
C34_AddFailedAfterFirstRoot ==
    /\ last.op = "add_state" /\ last.status = "StateNotFoundError"
    /\ DOMAIN states = {<<1>>}
    /\ sequence_counter = 2

\* C35: in every state reachable by add_state, navigate_to, update_state, clear
\* and the load of a saved snapshot, current is absent exactly when no state is
\* stored, and otherwise it is the hierarchical_id of a stored record, so that
\* the current_state property gives a record whenever current_state_id is set.
C35_CurrentAbsentIffEmpty ==
    /\ current_state = None <=> state_count(Tree) = 0
    /\ current_state # None =>
           /\ current_state \in DOMAIN states
           /\ states[current_state].hierarchical_id = current_state
           /\ current_state_property(Tree) = current_state

\* a tree of three states was loaded with current at the state "1.1", which is
\* not the state added last
C35_LoadedWithCurrentInside ==
    /\ last.op = "load"
    /\ state_count(Tree) = 3
    /\ current_state = <<1, 1>>
    /\ <<1, 1, 1>> \in DOMAIN states

\* the tree that load gives back for the saved tree
loaded_tree == from_dict(to_dict(Tree))

\* C36: a loaded tree continues like the original: the tree load(save(T))
\* holds what T holds (records, their order, the sequence index, the child
\* lists, current and the counter), so every later operation gives the same
\* result on both; an add_state under any parent gets the same hierarchical_id
\* and sequence_id on both, and that id is not one the loaded tree already
\* holds; find_state, get_children, get_siblings, get_path_to_root,
\* get_subtree and get_conversation_messages answer alike.
C36_LoadedTreeContinuesAlike ==
    /\ loaded_tree.states = states
    /\ loaded_tree.states_keys = states_keys
    /\ loaded_tree.sequence_index = sequence_index
    /\ loaded_tree.parent_children = parent_children
    /\ loaded_tree.current_state = current_state
    /\ loaded_tree.sequence_counter = sequence_counter
    /\ \A parent_id \in {None} \cup DOMAIN states :
           LET added == new_state(parent_id, loaded_tree.sequence_counter + 1,
                                  loaded_tree.parent_children,
                                  Message(0), Response(0), Now(0))
           IN /\ added = new_state(parent_id, sequence_counter + 1, parent_children,
                                   Message(0), Response(0), Now(0))
              /\ added.hierarchical_id \notin DOMAIN loaded_tree.states
              /\ added.sequence_id \notin DOMAIN loaded_tree.sequence_index
    /\ \A identifier \in FindInputs :
           find_state(loaded_tree, identifier) = find_state(Tree, identifier)
    /\ \A x \in DOMAIN states :
           /\ get_children(loaded_tree, x) = get_children(Tree, x)
           /\ get_siblings(loaded_tree, x) = get_siblings(Tree, x)
           /\ get_path_to_root(loaded_tree, x) = get_path_to_root(Tree, x)
           /\ get_subtree(loaded_tree, x) = get_subtree(Tree, x)
           /\ get_conversation_messages(loaded_tree, x)
                  = get_conversation_messages(Tree, x)

\* the tree was loaded after update_state had stored "1.1" with a record that
\* has no parent: the loaded tree gives "1" no child, and the next add_state
\* under "1" is given the id "1.1" again
C36_LoadedTreeReassignsId ==
    /\ last.op = "load"
    /\ <<1, 1>> \in DOMAIN states
    /\ states[<<1, 1>>].parent_id = None
    /\ get_children(Tree, <<1>>) = <<>>
    /\ new_hierarchical_id(<<1>>, sequence_counter + 1, parent_children) = <<1, 1>>

\* C37: in the chat flow a state is added only after the backend has returned
\* the whole response. When the backend call fails, no state is added and the
\* records, current and the counter are as they were. When it succeeds, exactly
\* one state is added, with the state that was current when the message was
\* sent as its parent, or as a root when there was none; it becomes current;
\* when the parent had a child already, the new state comes after the children
\* there were, and no stored record is changed.
C37_ChatAddsAfterResponse ==
    [][last'.op \in {"chat", "add_state"} =>
           \A backend_ok \in BOOLEAN :
               handle_chat_message(backend_ok) =>
                   IF ~backend_ok
                   THEN /\ last'.op = "chat"
                        /\ UNCHANGED tree_vars
                   ELSE LET parent == current_state_property(Tree)
                            added == current_state'
                        IN /\ last'.op = "add_state" /\ last'.status = "ok"
                           /\ DOMAIN states' = DOMAIN states \cup {added}
                           /\ added \notin DOMAIN states
                           /\ state_count(Tree') = state_count(Tree) + 1
                           /\ sequence_counter' = sequence_counter + 1
                           /\ states'[added].parent_id = parent
                           /\ parent = None => is_root(states'[added])
                           /\ parent # None =>
                                  get_children(Tree', parent)
                                      = Append(get_children(Tree, parent), added)
                           /\ \A h \in DOMAIN states :
                                  /\ states'[h] = states[h]
                                  /\ h # parent =>
                                         get_children(Tree', h) = get_children(Tree, h)
                           /\ current_state_property(Tree') = added]_vars

\* a chat message sent from "1", which had the child "1.1", has made the new
\* sibling "1.2" the current state
C37_ChatMadeSibling ==
    /\ last = [op |-> "add_state", status |-> "ok", ret |-> <<1, 2>>]
    /\ current_state = <<1, 2>>
    /\ get_children(Tree, <<1>>) = << <<1, 1>>, <<1, 2>> >>
    /\ navigator.tree = "self.tree"

\* the moves a command asks of the navigator
NavigatorMoves == {"go_to_state", "go_up", "go_down"}

\* C38: after every command of the application (chat, goto, up, down, tag,
\* new, save, a load that succeeds, a load that fails) the navigator holds the
\* tree the application adds chat states to; so no move of the navigator is
\* made in an earlier tree, and a move that succeeds sets the current pointer
\* of the application's tree to the state it returns, which is the parent the
\* next chat message gives to add_state.
C38_NavigatorHoldsApplicationTree ==
    [][/\ navigator.tree = "self.tree"
       /\ navigator'.tree = "self.tree"
       /\ last'.op \in NavigatorMoves =>
              /\ last'.status # "moved in an earlier tree"
              /\ last'.status = "ok" =>
                     /\ current_state' = last'.ret
                     /\ current_state_id(Tree') = last'.ret
                     /\ new_state(current_state_id(Tree'), sequence_counter' + 1,
                                  parent_children', Message(0), Response(0),
                                  Now(0)).parent_id = last'.ret]_vars

\* a tree of two states has been loaded, and the navigator holds it
C38_LoadedTreeHasNavigator ==
    /\ last = [op |-> "load", status |-> "ok", ret |-> None]
    /\ state_count(Tree) = 2
    /\ current_state = <<1>>
    /\ navigator = TreeNavigator("self.tree")

====
